---- MODULE Spec2Model ----
(***************************************************************************)
(* Prompt-to-command translation pipeline of cinema-command:               *)
(* rule loading and matching (src/src/agent.py), the LLM response          *)
(* unwrapping and command extraction (src/src/api_handler.py,              *)
(* src/src/agent.py) and the orchestrator Agent.process_prompt.            *)
(*                                                                         *)
(* Text is modelled at character level: a Python str is a sequence of      *)
(* one-character strings.  Python values (the results of json.loads) are   *)
(* tagged records; a dict is the sequence of its (key, value) pairs in     *)
(* insertion order.  The alphabet holds no backslash, so JSON escape       *)
(* sequences do not occur in any text of the model.                        *)
(***************************************************************************)
EXTENDS Integers, Sequences, FiniteSets, TLC

VARIABLES
    ruleFile,   \* prefs/agent_rules.txt as last read: [exists, lines]
    rules,      \* Agent.rules
    reloadReturn, \* what Agent.reload_rules returned, if it was the last operation
    prefs,      \* the plugin's world container: [exists, data]
    pc,         \* where Agent.process_prompt stands: "idle" or "calling"
    prompt,     \* the prompt of the current / last process_prompt call
    result,     \* what process_prompt returned, if it was the last operation
    llmCalled,  \* whether that process_prompt call entered call_claude
    llmReply,   \* what call_claude did in that call: NoReply, Replied or Failed
    exParts,    \* the blocks the completion text is made of
    exText,     \* the completion text handed to the extractors
    exDone,     \* the extractors that have run
    exApi,      \* extract_commands_from_text(exText)
    exAgent,    \* Agent.parse_commands_from_ai(exText)
    exNL,       \* Agent.extract_commands(exText)
    exResult,   \* what process_prompt returns when the completion text is exText
    lists,      \* the list objects a thread holds a reference to: id -> items
    selfRules,  \* the id of the list Agent.rules refers to
    loadedFrom, \* the rule file that list was read from
    reloader,   \* the thread in Agent.reload_rules: [pc, file, next, local]
    matcher,    \* the thread in Agent.match_prompt: [pc, list, idx, prompt, file, out]
    actionArg,  \* the action handed to Agent.parse_command_args
    args_str,   \* the raw arguments handed to it
    parsed,     \* what it did: [done, out]
    dlg,        \* MainDialog.Command for the Run button: [pc, prompt, commands, outcome]
    processing, \* MainDialog.processing, the busy flag
    runEnabled, \* whether the Run button is enabled
    cmd_list,   \* the list handed to execute_commands
    exe,        \* execute_commands: [pc, next, out]
    undoCalls,  \* the calls of doc.StartUndo and doc.EndUndo, in order
    dispatched, \* the indices of the commands handed to run_tool, in order
    toolReturns, \* what run_tool returned for them
    scene,      \* the objects the handlers put into the document, in order
    code,       \* the snippet handed to run_python_snippet
    hostScripts, \* the scripts handed to the host's script executor
    pyReturn    \* what run_python_snippet returned

vars == <<ruleFile, rules, reloadReturn, prefs, pc, prompt, result, llmCalled, llmReply,
          exParts, exText, exDone, exApi, exAgent, exNL, exResult,
          lists, selfRules, loadedFrom, reloader, matcher, actionArg, args_str, parsed,
          dlg, processing, runEnabled, cmd_list, exe, undoCalls, dispatched, toolReturns,
          scene, code, hostScripts, pyReturn>>

agentVars == <<ruleFile, rules, reloadReturn, prefs, pc, prompt, result, llmCalled, llmReply>>
agentRest == <<ruleFile, rules, prefs, pc, prompt, result, llmCalled, llmReply>>
exVars == <<exParts, exText, exDone, exApi, exAgent, exNL, exResult>>
concVars == <<lists, selfRules, loadedFrom, reloader, matcher>>
argVars == <<actionArg, args_str, parsed>>
dlgVars == <<dlg, processing, runEnabled>>
execVars == <<cmd_list, exe, undoCalls, dispatched, toolReturns, scene>>
pyVars == <<code, hostScripts, pyReturn>>

\* the variables of the threads and of parse_command_args where they play
\* no part
ConcUnused ==
    /\ lists = << >>
    /\ selfRules = 0
    /\ loadedFrom = [exists |-> FALSE, lines |-> << >>]
    /\ reloader = [pc |-> "unused"]
    /\ matcher = [pc |-> "unused"]

ArgsUnused ==
    /\ actionArg = << >>
    /\ args_str = [t |-> "none"]
    /\ parsed = [done |-> FALSE, out |-> [raised |-> FALSE]]

DialogUnused ==
    /\ dlg = [pc |-> "unused"]
    /\ processing = FALSE
    /\ runEnabled = TRUE

ExecUnused ==
    /\ cmd_list = [t |-> "none"]
    /\ exe = [pc |-> "unused"]
    /\ undoCalls = << >>
    /\ dispatched = << >>
    /\ toolReturns = << >>
    /\ scene = << >>

PythonUnused ==
    /\ code = << >>
    /\ hostScripts = << >>
    /\ pyReturn = [t |-> "none"]

---------------------------------------------------------------------------
(* Characters and Python str operations                                    *)

Q == "\""
NL == "\n"

\* str.strip() and the regex class \s, within the alphabet
Whitespace == {" ", "\n", "\t", "\r"}

Digits == {"0", "1", "2", "3", "4", "5", "6", "7", "8", "9"}

\* s[i:i+1]: the character at 1-based index i, "" past either end
CharAt(s, i) == IF i >= 1 /\ i <= Len(s) THEN s[i] ELSE ""

\* s[i-1:] in Python terms: the suffix starting at 1-based index i
From(s, i) == SubSeq(s, i, Len(s))

\* s.startswith(lit, i-1)
StartsWithAt(s, i, lit) ==
    /\ i >= 1
    /\ i + Len(lit) - 1 <= Len(s)
    /\ \A k \in 1..Len(lit) : s[i + k - 1] = lit[k]

\* the least element of a non-empty set of integers
Least(S) == CHOOSE k \in S : \A n \in S : k <= n

LeastOr0(S) == IF S = {} THEN 0 ELSE Least(S)

\* s.find(lit, i-1) + 1: least index >= i where lit occurs, 0 when none
Find(s, lit, i) ==
    LeastOr0({k \in i..(Len(s) - Len(lit) + 1) : StartsWithAt(s, k, lit)})

\* lit in s
Contains(s, lit) == Find(s, lit, 1) # 0

Upper == <<"A", "B", "C", "D", "E", "F", "G", "H", "I", "J", "K", "L", "M",
           "N", "O", "P", "Q", "R", "S", "T", "U", "V", "W", "X", "Y", "Z">>
Lower == <<"a", "b", "c", "d", "e", "f", "g", "h", "i", "j", "k", "l", "m",
           "n", "o", "p", "q", "r", "s", "t", "u", "v", "w", "x", "y", "z">>

LowerChar(c) ==
    IF \E k \in 1..26 : Upper[k] = c
    THEN Lower[CHOOSE k \in 1..26 : Upper[k] = c]
    ELSE c

\* str.lower()
str_lower(s) == [i \in 1..Len(s) |-> LowerChar(s[i])]

\* the end of the run of characters of class starting at index i: the least
\* index >= i that holds no character of class
RunEnd(s, i, class) ==
    IF CharAt(s, i) \notin class THEN i
    ELSE Least({k \in i..(Len(s) + 1) : CharAt(s, k) \notin class})

Reverse(s) == [i \in 1..Len(s) |-> s[Len(s) + 1 - i]]

\* str.strip(): from the first to the last character that is no whitespace
str_strip(s) ==
    SubSeq(s, RunEnd(s, 1, Whitespace), Len(s) + 1 - RunEnd(Reverse(s), 1, Whitespace))

\* str.split(sep), sep non-empty: the pieces between the non-overlapping
\* occurrences of sep found left to right
RECURSIVE str_split(_, _)
\* A faulty variant of SplitAt, which C7_BlankLineBlocks must tell from it:
\* the text is split at the first separator only
SplitAt_Once(s, sep, at) ==
    IF at = 0 THEN <<s>> ELSE <<SubSeq(s, 1, at - 1), From(s, at + Len(sep))>>

\* at is the index of the first occurrence of sep in s, 0 when there is none
SplitAt(s, sep, at) ==
    IF at = 0 THEN <<s>>
    ELSE <<SubSeq(s, 1, at - 1)>> \o str_split(From(s, at + Len(sep)), sep)

str_split(s, sep) == SplitAt(s, sep, Find(s, sep, 1))

---------------------------------------------------------------------------
(* Python values                                                           *)

PyNone == [t |-> "none"]
PyBool(b) == [t |-> "bool", b |-> b]
PyNum(lexeme) == [t |-> "num", s |-> lexeme]
PyStr(s) == [t |-> "str", s |-> s]
PyList(items) == [t |-> "list", items |-> items]
PyDict(kv) == [t |-> "dict", kv |-> kv]

IsDict(v) == v.t = "dict"
IsList(v) == v.t = "list"
IsStr(v) == v.t = "str"

Keys(d) == {d.kv[i].k : i \in 1..Len(d.kv)}

\* key in d, d a dict
HasKey(d, key) == key \in Keys(d)

\* d[key], d a dict holding key
Get(d, key) == d.kv[CHOOSE i \in 1..Len(d.kv) : d.kv[i].k = key].v

\* d[key] = val on the pair sequence of a dict: an existing key keeps its place
DictSet(kv, key, val) ==
    IF \E i \in 1..Len(kv) : kv[i].k = key
    THEN [i \in 1..Len(kv) |-> IF kv[i].k = key THEN [k |-> key, v |-> val] ELSE kv[i]]
    ELSE Append(kv, [k |-> key, v |-> val])

\* bool(v)
Truthy(v) ==
    CASE v.t = "none" -> FALSE
      [] v.t = "bool" -> v.b
      [] v.t = "num"  -> \E i \in 1..Len(v.s) :
                             /\ v.s[i] \in (Digits \ {"0"})
                             /\ \A j \in 1..i : v.s[j] \notin {"e", "E"}
      [] v.t = "str"  -> v.s # << >>
      [] v.t = "list" -> v.items # << >>
      [] v.t = "dict" -> v.kv # << >>

---------------------------------------------------------------------------
(* json.loads: the scanner and decoder of Python's json module             *)

JsonWs == {" ", "\t", "\n", "\r"}

\* what json rejects inside a string literal (strict mode)
ControlChars == {"\n", "\t", "\r"}

ParseFail == [ok |-> FALSE, v |-> PyNone, n |-> 0]
ParseOk(v, n) == [ok |-> TRUE, v |-> v, n |-> n]

\* WHITESPACE.match(s, i).end()
SkipWs(s, i) == RunEnd(s, i, JsonWs)

DigitsEnd(s, i) == RunEnd(s, i, Digits)

\* NUMBER_RE = (-?(?:0|[1-9]\d*))(\.\d+)?([eE][-+]?\d+)? matched at i, part
\* by part; each part gives the index after it.
\* The integer part at p (after the sign): 0 when there is none
IntEnd(s, p) ==
    IF CharAt(s, p) = "0" THEN p + 1
    ELSE IF CharAt(s, p) \in Digits THEN DigitsEnd(s, p + 1)
    ELSE 0

\* the optional fraction at e
FracEnd(s, e) ==
    IF CharAt(s, e) = "." /\ CharAt(s, e + 1) \in Digits THEN DigitsEnd(s, e + 1) ELSE e

\* where the digits of an exponent at f would start
ExpDigits(s, f) == IF CharAt(s, f + 1) \in {"-", "+"} THEN f + 2 ELSE f + 1

\* the optional exponent at f
ExpEnd(s, f) ==
    IF CharAt(s, f) \in {"e", "E"} /\ CharAt(s, ExpDigits(s, f)) \in Digits
    THEN DigitsEnd(s, ExpDigits(s, f)) ELSE f

\* the optional parts after an integer part ending at e
AfterInt(s, e) == IF e = 0 THEN 0 ELSE ExpEnd(s, FracEnd(s, e))

\* the index after the match of NUMBER_RE at i, 0 when it does not match
NumberEnd(s, i) == AfterInt(s, IntEnd(s, IF CharAt(s, i) = "-" THEN i + 1 ELSE i))

\* scanstring(s, i): i is the index after the opening quote; j scans for the
\* closing one
RECURSIVE ScanString(_, _, _)
ScanString(s, i, j) ==
    IF CharAt(s, j) = "" \/ CharAt(s, j) \in ControlChars THEN ParseFail
    ELSE IF CharAt(s, j) = Q THEN ParseOk(PyStr(SubSeq(s, i, j - 1)), j + 1)
    ELSE ScanString(s, i, j + 1)

s_null == <<"n", "u", "l", "l">>
s_true == <<"t", "r", "u", "e">>
s_false == <<"f", "a", "l", "s", "e">>

RECURSIVE ScanOnce(_, _)
RECURSIVE ParseMembers(_, _, _)
RECURSIVE ParseElements(_, _, _)

\* JSONObject after a member: at index after, "}" ends the object and ","
\* must be followed by the quote of the next key
MemberNext(s, after, kv) ==
    IF CharAt(s, after) = "}" THEN ParseOk(PyDict(kv), after + 1)
    ELSE IF CharAt(s, after) = "," /\ CharAt(s, SkipWs(s, after + 1)) = Q
         THEN ParseMembers(s, SkipWs(s, after + 1), kv)
    ELSE ParseFail

\* JSONObject after the value val of the key key
MemberValue(s, key, val, kv) ==
    IF ~val.ok THEN ParseFail
    ELSE MemberNext(s, SkipWs(s, val.n), DictSet(kv, key.v.s, val.v))

\* JSONObject after the key: the colon at index colon, then the value
MemberColon(s, key, colon, kv) ==
    IF CharAt(s, colon) # ":" THEN ParseFail
    ELSE MemberValue(s, key, ScanOnce(s, SkipWs(s, colon + 1)), kv)

\* JSONObject after scanning the key
MemberKey(s, key, kv) ==
    IF ~key.ok THEN ParseFail ELSE MemberColon(s, key, SkipWs(s, key.n), kv)

\* JSONObject, from the opening quote of a key at index i on; kv holds the
\* pairs decoded so far
ParseMembers(s, i, kv) == MemberKey(s, ScanString(s, i + 1, i + 1), kv)

\* JSONArray after an element: at index after, "]" ends the array and ","
\* announces the next element
ElementNext(s, after, items) ==
    IF CharAt(s, after) = "]" THEN ParseOk(PyList(items), after + 1)
    ELSE IF CharAt(s, after) = "," THEN ParseElements(s, SkipWs(s, after + 1), items)
    ELSE ParseFail

\* JSONArray after the element val
ElementValue(s, val, items) ==
    IF ~val.ok THEN ParseFail
    ELSE ElementNext(s, SkipWs(s, val.n), Append(items, val.v))

\* JSONArray, from the first character of an element at index i on
ParseElements(s, i, items) == ElementValue(s, ScanOnce(s, i), items)

\* JSONObject: first is the index of the first character after "{" that is
\* no whitespace
ObjectAt(s, first) ==
    IF CharAt(s, first) = "}" THEN ParseOk(PyDict(<< >>), first + 1)
    ELSE IF CharAt(s, first) = Q THEN ParseMembers(s, first, << >>)
    ELSE ParseFail

\* JSONArray: first is the index of the first character after "[" that is
\* no whitespace
ArrayAt(s, first) ==
    IF CharAt(s, first) = "]" THEN ParseOk(PyList(<< >>), first + 1)
    ELSE ParseElements(s, first, << >>)

\* the number at i, numEnd being NumberEnd(s, i); StopIteration otherwise
NumberAt(s, i, numEnd) ==
    IF numEnd # 0 THEN ParseOk(PyNum(SubSeq(s, i, numEnd - 1)), numEnd) ELSE ParseFail

\* scan_once(s, i): the JSON value starting exactly at index i
ScanOnce(s, i) ==
    IF CharAt(s, i) = Q THEN ScanString(s, i + 1, i + 1)
    ELSE IF CharAt(s, i) = "{" THEN ObjectAt(s, SkipWs(s, i + 1))
    ELSE IF CharAt(s, i) = "[" THEN ArrayAt(s, SkipWs(s, i + 1))
    ELSE IF StartsWithAt(s, i, s_null) THEN ParseOk(PyNone, i + 4)
    ELSE IF StartsWithAt(s, i, s_true) THEN ParseOk(PyBool(TRUE), i + 4)
    ELSE IF StartsWithAt(s, i, s_false) THEN ParseOk(PyBool(FALSE), i + 5)
    ELSE NumberAt(s, i, NumberEnd(s, i))

\* JSONDecoder.decode after raw_decode gave r: anything but whitespace after
\* the value is "Extra data"
Decode(s, r) == IF r.ok /\ SkipWs(s, r.n) = Len(s) + 1 THEN r ELSE ParseFail

\* json.loads(s): ok = FALSE stands for json.JSONDecodeError
json_loads(s) == Decode(s, ScanOnce(s, SkipWs(s, 1)))

\* json.dumps(v) with the default separators
RECURSIVE json_dumps(_)
RECURSIVE DumpPairs(_)
RECURSIVE DumpItems(_)
DumpPairs(kv) ==
    IF kv = << >> THEN << >>
    ELSE <<Q>> \o kv[1].k \o <<Q, ":", " ">> \o json_dumps(kv[1].v)
         \o (IF Len(kv) > 1 THEN <<",", " ">> ELSE << >>) \o DumpPairs(Tail(kv))
DumpItems(items) ==
    IF items = << >> THEN << >>
    ELSE json_dumps(items[1])
         \o (IF Len(items) > 1 THEN <<",", " ">> ELSE << >>) \o DumpItems(Tail(items))
json_dumps(v) ==
    CASE v.t = "none" -> s_null
      [] v.t = "bool" -> IF v.b THEN s_true ELSE s_false
      [] v.t = "num"  -> v.s
      [] v.t = "str"  -> <<Q>> \o v.s \o <<Q>>
      [] v.t = "list" -> <<"[">> \o DumpItems(v.items) \o <<"]">>
      [] v.t = "dict" -> <<"{">> \o DumpPairs(v.kv) \o <<"}">>

---------------------------------------------------------------------------
(* String constants of the program                                         *)

s_action == <<"a", "c", "t", "i", "o", "n">>
s_args == <<"a", "r", "g", "s">>
s_prompt_contains == <<"p", "r", "o", "m", "p", "t", "_", "c", "o", "n", "t", "a", "i", "n", "s">>
s_commands == <<"c", "o", "m", "m", "a", "n", "d", "s">>
s_content == <<"c", "o", "n", "t", "e", "n", "t">>
s_type == <<"t", "y", "p", "e">>
s_text == <<"t", "e", "x", "t">>
s_name == <<"n", "a", "m", "e">>
s_size == <<"s", "i", "z", "e">>
s_radius == <<"r", "a", "d", "i", "u", "s">>
s_diameter == <<"d", "i", "a", "m", "e", "t", "e", "r">>
s_count == <<"c", "o", "u", "n", "t">>
s_point == <<"p", "o", "i", "n", "t">>
s_AddCube == <<"A", "d", "d", "C", "u", "b", "e">>
s_AddSphere == <<"A", "d", "d", "S", "p", "h", "e", "r", "e">>
s_AddCamera == <<"A", "d", "d", "C", "a", "m", "e", "r", "a">>
s_AddLight == <<"A", "d", "d", "L", "i", "g", "h", "t">>
s_CreateMaterial == <<"C", "r", "e", "a", "t", "e", "M", "a", "t", "e", "r", "i", "a", "l">>
s_ApplyMaterial == <<"A", "p", "p", "l", "y", "M", "a", "t", "e", "r", "i", "a", "l">>
s_Duplicate == <<"D", "u", "p", "l", "i", "c", "a", "t", "e">>
s_GroupSelected == <<"G", "r", "o", "u", "p", "S", "e", "l", "e", "c", "t", "e", "d">>
s_NewMaterial == <<"N", "e", "w", "M", "a", "t", "e", "r", "i", "a", "l">>
s_Cube == <<"C", "u", "b", "e">>
s_Group == <<"G", "r", "o", "u", "p">>
s_use_rules == <<"u", "s", "e", "_", "r", "u", "l", "e", "s">>
s_claude_api_key == <<"c", "l", "a", "u", "d", "e", "_", "a", "p", "i", "_", "k", "e", "y">>
n_1 == <<"1">>
n_100 == <<"1", "0", "0">>
n_200 == <<"2", "0", "0">>

KV(key, val) == [k |-> key, v |-> val]

\* the dict {"action": action, "args": {...}}
Cmd(action, argPairs) ==
    PyDict(<<KV(s_action, PyStr(action)), KV(s_args, PyDict(argPairs))>>)

---------------------------------------------------------------------------
(* preferences.py: the plugin's world container                            *)

\* ord(c) for the characters preference keys are made of
Ord(c) ==
    IF c = "_" THEN 95
    ELSE 96 + (CHOOSE k \in 1..26 : Lower[k] = c)

RECURSIVE OrdSum(_)
OrdSum(key) == IF key = << >> THEN 0 ELSE Ord(Head(key)) + OrdSum(Tail(key))

generate_id(key) == (OrdSum(key) % 10000) + 1000

\* the container is [exists, data]: GetWorldPluginData returns None until the
\* first save; data is the set of (id, value) entries
NoContainer == [exists |-> FALSE, data |-> {}]

HasEntry(bc, id) == \E e \in bc.data : e.id = id
Entry(bc, id) == (CHOOSE e \in bc.data : e.id = id).v

\* load_pref(key, default): bc.GetBool / bc.GetString return the default for
\* an id the container does not hold
load_pref(bc, key, default) ==
    IF ~bc.exists THEN default
    ELSE IF HasEntry(bc, generate_id(key)) THEN Entry(bc, generate_id(key))
    ELSE default

\* save_pref(key, value): the container after SetWorldPluginData
save_pref(bc, key, value) ==
    [exists |-> TRUE,
     data |-> {e \in bc.data : e.id # generate_id(key)}
              \cup {[id |-> generate_id(key), v |-> value]}]

---------------------------------------------------------------------------
(* Agent.reload_rules and Agent.match_prompt                               *)

\* rules.append(rule), or the except branch for a line json.loads rejects
Appended(r) == IF r.ok THEN <<r.v>> ELSE << >>

\* "if not line or line.startswith('#'): continue"
StrippedRuleLine(l) ==
    IF l = << >> \/ Head(l) = "#" THEN << >> ELSE Appended(json_loads(l))

\* the body of the loop over the lines of the rule file: the rules a line adds
RuleLine(line) == StrippedRuleLine(str_strip(line))

\* A faulty variant of ReadRules, which C13_BadLinesSkipped must tell from
\* it: the try statement encloses the loop, so the first line that fails to
\* decode ends the reading
RECURSIVE ReadRules_AbortAtBad(_)
ReadRules_AbortAtBad(lines) ==
    IF lines = << >> THEN << >>
    ELSE IF /\ str_strip(Head(lines)) # << >>
            /\ Head(str_strip(Head(lines))) # "#"
            /\ ~json_loads(str_strip(Head(lines))).ok
         THEN << >>
    ELSE RuleLine(Head(lines)) \o ReadRules_AbortAtBad(Tail(lines))

RECURSIVE ReadRules(_)
ReadRules(lines) ==
    IF lines = << >> THEN << >> ELSE RuleLine(Head(lines)) \o ReadRules(Tail(lines))

\* the list reload_rules assigns to self.rules; file is [exists, lines],
\* exists being os.path.exists(rules_path)
LoadedRules(file) == IF ~file.exists THEN << >> ELSE ReadRules(file.lines)

Returned(v) == [raised |-> FALSE, v |-> v, msg |-> << >>]
Raised(msg) == [raised |-> TRUE, v |-> PyNone, msg |-> msg]

e_not_iterable == <<"a", "r", "g", "u", "m", "e", "n", "t", " ", "o", "f", " ", "t", "y", "p", "e", " ", "n", "o", "t", " ", "i", "t", "e", "r", "a", "b", "l", "e">>
e_bad_index == <<"i", "n", "d", "i", "c", "e", "s", " ", "m", "u", "s", "t", " ", "b", "e", " ", "i", "n", "t", "e", "g", "e", "r", "s">>
e_no_lower == <<"o", "b", "j", "e", "c", "t", " ", "h", "a", "s", " ", "n", "o", " ", "a", "t", "t", "r", "i", "b", "u", "t", "e", " ", "l", "o", "w", "e", "r">>

\* "prompt_contains" in rule, for each type json.loads can return:
\* "yes", "no", or "raise" (TypeError: not iterable)
InRule(rule) ==
    CASE rule.t = "dict" -> IF HasKey(rule, s_prompt_contains) THEN "yes" ELSE "no"
      [] rule.t = "list" -> IF PyStr(s_prompt_contains) \in {rule.items[i] : i \in 1..Len(rule.items)}
                            THEN "yes" ELSE "no"
      [] rule.t = "str"  -> IF Contains(rule.s, s_prompt_contains) THEN "yes" ELSE "no"
      [] OTHER -> "raise"

\* A faulty variant of TriggerTest, which C5_FirstMatch must tell from it: the
\* trigger is searched without lowering either side
TriggerTest_CaseSensitive(trigger, p) ==
    IF ~IsStr(trigger) THEN Raised(e_no_lower)
    ELSE Returned(PyBool(Contains(p, trigger.s)))

\* rule["prompt_contains"].lower() in prompt.lower(), or what evaluating it
\* raises
TriggerTest(trigger, p) ==
    IF ~IsStr(trigger) THEN Raised(e_no_lower)
    ELSE Returned(PyBool(Contains(str_lower(p), str_lower(trigger.s))))

\* the condition of the loop of match_prompt, inRule being InRule(rule)
RuleTestIn(rule, p, inRule) ==
    IF inRule = "raise" THEN Raised(e_not_iterable)
    ELSE IF inRule = "no" THEN Returned(PyBool(FALSE))
    ELSE IF ~IsDict(rule) THEN Raised(e_bad_index)
    ELSE TriggerTest(Get(rule, s_prompt_contains), p)

\* one iteration of the loop of match_prompt: whether the rule matches, or
\* the exception the condition raises
RuleTest(rule, p) == RuleTestIn(rule, p, InRule(rule))

\* rule.get("commands", [])
RuleCommands(rule) ==
    IF HasKey(rule, s_commands) THEN Get(rule, s_commands) ELSE PyList(<< >>)

RECURSIVE MatchLoop(_, _)
\* t is the test of the first rule of rs
MatchStep(rs, p, t) ==
    IF t.raised THEN t
    ELSE IF t.v.b THEN Returned(RuleCommands(Head(rs)))
    ELSE MatchLoop(Tail(rs), p)

MatchLoop(rs, p) ==
    IF rs = << >> THEN Returned(PyList(<< >>)) ELSE MatchStep(rs, p, RuleTest(Head(rs), p))

\* A faulty variant of match_prompt, which C6_RulesDisabled must tell from it:
\* the use_rules preference is not consulted
match_prompt_FlagIgnored(rs, bc, p) == MatchLoop(rs, p)

\* Agent.match_prompt(prompt) with self.rules = rs and the container bc
match_prompt(rs, bc, p) ==
    IF ~load_pref(bc, s_use_rules, PyBool(TRUE)).b THEN Returned(PyList(<< >>))
    ELSE MatchLoop(rs, p)

---------------------------------------------------------------------------
(* api_handler.py: extract_text_from_claude_response and                   *)
(* extract_commands_from_text                                              *)

\* the text blocks of response["content"], or a failure when a block makes
\* the loop raise (a block that is no dict, or a text block without "text")
RECURSIVE TextBlocks(_)
TextBlocks(blocks) ==
    IF blocks = << >> THEN [ok |-> TRUE, v |-> << >>]
    ELSE LET b == Head(blocks)
             rest == TextBlocks(Tail(blocks))
             isText == HasKey(b, s_type) /\ Get(b, s_type) = PyStr(s_text)
         IN  IF ~IsDict(b) THEN [ok |-> FALSE, v |-> << >>]
             ELSE IF isText /\ ~HasKey(b, s_text) THEN [ok |-> FALSE, v |-> << >>]
             ELSE IF ~rest.ok THEN rest
             ELSE IF isText THEN [ok |-> TRUE, v |-> <<Get(b, s_text)>> \o rest.v]
             ELSE rest

\* A faulty variant of JoinLines, which C12_ExtractTextTotal must tell from
\* it: the texts are joined without a separator
RECURSIVE JoinLines_NoSeparator(_)
JoinLines_NoSeparator(parts) ==
    IF parts = << >> THEN << >> ELSE parts[1].s \o JoinLines_NoSeparator(Tail(parts))

\* "\n".join(parts), parts a sequence of str values
RECURSIVE JoinLines(_)
JoinLines(parts) ==
    IF parts = << >> THEN << >>
    ELSE IF Len(parts) = 1 THEN parts[1].s
    ELSE parts[1].s \o <<NL>> \o JoinLines(Tail(parts))

\* extract_text_from_claude_response(response): every exception is caught
\* and turned into ""
extract_text_from_claude_response(response) ==
    IF ~IsDict(response) THEN << >>
    ELSE IF ~HasKey(response, s_content) THEN << >>
    ELSE IF ~IsList(Get(response, s_content)) THEN << >>
    ELSE LET tb == TextBlocks(Get(response, s_content).items)
         IN  IF ~tb.ok THEN << >>
             ELSE IF \E i \in 1..Len(tb.v) : ~IsStr(tb.v[i]) THEN << >>
             ELSE JoinLines(tb.v)

s_blank_line == <<"\n", "\n">>

\* isinstance(cmd, dict) and "action" in cmd
IsCommand(v) == IsDict(v) /\ HasKey(v, s_action)

\* what the decoded value r appends to commands
Accepted(r) == IF r.ok /\ IsCommand(r.v) THEN <<r.v>> ELSE << >>

\* an empty block is passed over ("if not block: continue")
StrippedBlockCommands(b) == IF b = << >> THEN << >> ELSE Accepted(json_loads(b))

\* the body of the loop over the blocks: what one block appends to commands;
\* a json.JSONDecodeError is caught and the block skipped
BlockCommands(block) == StrippedBlockCommands(str_strip(block))

\* A faulty variant of BlocksCommands, which C10_SkippedLocally must tell from
\* it: the try statement encloses the loop, so the first block that fails to
\* decode ends it
RECURSIVE BlocksCommands_AbortAtBad(_)
BlocksCommands_AbortAtBad(blocks) ==
    IF blocks = << >> THEN << >>
    ELSE IF str_strip(Head(blocks)) # << >> /\ ~json_loads(str_strip(Head(blocks))).ok
         THEN << >>
    ELSE BlockCommands(Head(blocks)) \o BlocksCommands_AbortAtBad(Tail(blocks))

RECURSIVE BlocksCommands(_)
BlocksCommands(blocks) ==
    IF blocks = << >> THEN << >>
    ELSE BlockCommands(Head(blocks)) \o BlocksCommands(Tail(blocks))

\* extract_commands_from_text(text)
extract_commands_from_text(text) ==
    IF text = << >> THEN Returned(<< >>)
    ELSE Returned(BlocksCommands(str_split(str_strip(text), s_blank_line)))

---------------------------------------------------------------------------
(* Agent.parse_commands_from_ai: the four extraction methods               *)

\* Method 1: the blocks of completion.split("\n\n")
Method1(completion) == BlocksCommands(str_split(completion, s_blank_line))

\* the backtick character (the module's lexer does not take it in a string)
BT == "BACKTICK"
s_fence == <<BT, BT, BT>>
s_nl_fence == <<"\n", BT, BT, BT>>
s_json == <<"j", "s", "o", "n">>

\* the end of the run of \s characters starting at index i
WsRunEnd(s, i) == RunEnd(s, i, Whitespace)

NoFenceMatch == [ok |-> FALSE, from |-> 0, to |-> 0, next |-> 0]

\* The code-block pattern of Method 2, with FENCE standing for three
\* backticks: r'FENCE(?:json)?\s*\n(.*?)\nFENCE' with re.DOTALL, tried at
\* index i.  The greedy \s* gives way from the right until the \n after it
\* and a later newline-FENCE are found; the lazy group then ends at the
\* first newline-FENCE.
\* The result is [ok, from, to, next]: group 1 is s[from..to], next is the
\* index after the match.
\* The match with the \n of the pattern at k and the closing newline-FENCE at e
FenceMatch(k, e) == [ok |-> TRUE, from |-> k + 1, to |-> e - 1, next |-> e + 4]

\* the newlines of the \s* run starting at j that a newline-FENCE follows
FenceNewlines(s, j) ==
    {k \in j..(WsRunEnd(s, j) - 1) : s[k] = NL /\ Find(s, s_nl_fence, k + 1) # 0}

\* the greatest element of a non-empty set of integers
Greatest(S) == CHOOSE k \in S : \A n \in S : n <= k

FenceClose(s, k) == FenceMatch(k, Find(s, s_nl_fence, k + 1))

FenceRun(s, ks) == IF ks = {} THEN NoFenceMatch ELSE FenceClose(s, Greatest(ks))

FenceMatchAt(s, i) ==
    IF ~StartsWithAt(s, i, s_fence) THEN NoFenceMatch
    ELSE FenceRun(s, FenceNewlines(s, IF StartsWithAt(s, i + 3, s_json) THEN i + 7 ELSE i + 3))

\* re.findall of the fence pattern from index i on: the group 1 of each
\* non-overlapping match, left to right
RECURSIVE CodeBlocks(_, _)
\* m is the attempt to match at the fence at f
CodeBlocksMatch(s, f, m) ==
    IF m.ok THEN <<SubSeq(s, m.from, m.to)>> \o CodeBlocks(s, m.next)
    ELSE CodeBlocks(s, f + 1)

\* f is the index of the next fence, 0 when there is none
CodeBlocksFrom(s, f) == IF f = 0 THEN << >> ELSE CodeBlocksMatch(s, f, FenceMatchAt(s, f))

CodeBlocks(s, i) == CodeBlocksFrom(s, Find(s, s_fence, i))

\* A faulty variant of SelectCommands, which C11_FencedRegions must tell from
\* it: the loop over the array stops after the first command it accepts
RECURSIVE SelectCommands_FirstOnly(_)
SelectCommands_FirstOnly(items) ==
    IF items = << >> THEN << >>
    ELSE IF IsCommand(Head(items)) THEN <<Head(items)>>
    ELSE SelectCommands_FirstOnly(Tail(items))

RECURSIVE SelectCommands(_)
SelectCommands(items) ==
    IF items = << >> THEN << >>
    ELSE (IF IsCommand(Head(items)) THEN <<Head(items)>> ELSE << >>)
         \o SelectCommands(Tail(items))

\* first is the first character of the stripped block, r is json.loads(block)
DecodedBlockCommands(first, r) ==
    IF first = "[" THEN
        IF r.ok THEN SelectCommands(r.v.items) ELSE << >>
    ELSE IF first = "{" THEN
        IF r.ok /\ HasKey(r.v, s_action) THEN <<r.v>> ELSE << >>
    ELSE << >>

\* the body of the loop over the code blocks: a block starting with "[" is
\* decoded as an array, one starting with "{" as an object; any exception
\* skips the block
CodeBlockCommands(block) == DecodedBlockCommands(CharAt(str_strip(block), 1), json_loads(block))

RECURSIVE CodeBlocksCommands(_)
CodeBlocksCommands(blocks) ==
    IF blocks = << >> THEN << >>
    ELSE CodeBlockCommands(Head(blocks)) \o CodeBlocksCommands(Tail(blocks))

\* Method 2: the fenced code blocks
Method2(completion) == CodeBlocksCommands(CodeBlocks(completion, 1))

s_q_action == <<"\"", "a", "c", "t", "i", "o", "n", "\"">>

\* the first index >= i holding a brace, 0 when there is none
NextBrace(s, i) == LeastOr0({k \in i..Len(s) : s[k] \in {"{", "}"}})

\* r is the index of the first brace after the one at i, 0 when none
BraceMatchTo(s, i, r) ==
    IF CharAt(s, i) = "{" /\ r # 0 /\ CharAt(s, r) = "}"
       /\ Contains(SubSeq(s, i + 1, r - 1), s_q_action)
    THEN r ELSE 0

\* r'\{[^{}]*"action"[^{}]*\}' with re.DOTALL, tried at index i: the index
\* of the closing brace, 0 when there is no match
BraceMatchAt(s, i) == BraceMatchTo(s, i, NextBrace(s, i + 1))

\* re.findall of the brace pattern from index i on
RECURSIVE BraceMatches(_, _)
\* r is the attempt to match at the opening brace at f
BraceMatchesMatch(s, f, r) ==
    IF r # 0 THEN <<SubSeq(s, f, r)>> \o BraceMatches(s, r + 1)
    ELSE BraceMatches(s, f + 1)

\* f is the index of the next opening brace, 0 when there is none
BraceMatchesFrom(s, f) ==
    IF f = 0 THEN << >> ELSE BraceMatchesMatch(s, f, BraceMatchAt(s, f))

BraceMatches(s, i) == BraceMatchesFrom(s, Find(s, <<"{">>, i))

\* the body of the loop over the regex matches: any exception skips the match
BraceMatchCommands(match) == Accepted(json_loads(match))

RECURSIVE BraceMatchesCommands(_)
BraceMatchesCommands(matches) ==
    IF matches = << >> THEN << >>
    ELSE BraceMatchCommands(Head(matches)) \o BraceMatchesCommands(Tail(matches))

\* Method 3: brace-delimited substrings holding "action"
Method3(completion) == BraceMatchesCommands(BraceMatches(completion, 1))

w_create == <<"c", "r", "e", "a", "t", "e">>
w_add == <<"a", "d", "d">>
w_make == <<"m", "a", "k", "e">>
w_a == <<"a">>
w_the == <<"t", "h", "e">>
w_red == <<"r", "e", "d">>
w_cube == <<"c", "u", "b", "e">>
w_sphere == <<"s", "p", "h", "e", "r", "e">>
w_camera == <<"c", "a", "m", "e", "r", "a">>
w_light == <<"l", "i", "g", "h", "t">>
w_material == <<"m", "a", "t", "e", "r", "i", "a", "l">>

\* lit followed by \s+ at index i: the index after the whitespace run, 0
\* when lit or the whitespace is missing
LitWs(s, i, lit) ==
    IF i # 0 /\ StartsWithAt(s, i, lit) /\ CharAt(s, i + Len(lit)) \in Whitespace
    THEN WsRunEnd(s, i + Len(lit)) ELSE 0

\* (?:create|add|make)\s+ at index i: the index after it, 0 when no match
VerbWs(s, i) ==
    IF LitWs(s, i, w_create) # 0 THEN LitWs(s, i, w_create)
    ELSE IF LitWs(s, i, w_add) # 0 THEN LitWs(s, i, w_add)
    ELSE LitWs(s, i, w_make)

\* noun at index q, q = 0 standing for no match so far
NounAfter(s, q, noun) == q # 0 /\ StartsWithAt(s, q, noun)

\* (?:red\s+)?noun after the article: afterA is the index after "a\s+"
NounAt(s, afterA, noun, optRed) ==
    /\ afterA # 0
    /\ \/ StartsWithAt(s, afterA, noun)
       \/ optRed /\ NounAfter(s, LitWs(s, afterA, w_red), noun)

\* (?:create|add|make)\s+a\s+(?:red\s+)?noun matched at index i; optRed says
\* whether the pattern has the optional (?:red\s+)?
PhraseAt(s, i, noun, optRed) == NounAt(s, LitWs(s, VerbWs(s, i), w_a), noun, optRed)

\* re.search(pattern, completion, re.IGNORECASE) for such a pattern, s being
\* the completion in lower case (the patterns are in lower case)
PhraseSearch(s, noun, optRed) ==
    \E i \in 1..Len(s) : PhraseAt(s, i, noun, optRed)

\* the table actions of Method 4, in insertion order
Actions == <<
    [noun |-> w_cube, optRed |-> TRUE,
     cmd |-> Cmd(s_AddCube, <<KV(s_size, PyNum(n_100)), KV(s_name, PyStr(s_Cube))>>)],
    [noun |-> w_sphere, optRed |-> FALSE,
     cmd |-> Cmd(s_AddSphere, <<KV(s_diameter, PyNum(n_100))>>)],
    [noun |-> w_camera, optRed |-> FALSE,
     cmd |-> Cmd(s_AddCamera, << >>)],
    [noun |-> w_light, optRed |-> FALSE,
     cmd |-> Cmd(s_AddLight, <<KV(s_type, PyStr(s_point))>>)],
    [noun |-> w_material, optRed |-> FALSE,
     cmd |-> Cmd(s_CreateMaterial, <<KV(s_name, PyStr(s_NewMaterial))>>)] >>

\* A faulty variant of PhraseCommands, which C8_AllMatchingPatterns must tell
\* from it: the loop over the table breaks at the first pattern that matches
RECURSIVE PhraseCommands_FirstOnly(_, _)
PhraseCommands_FirstOnly(s, table) ==
    IF table = << >> THEN << >>
    ELSE IF PhraseSearch(s, Head(table).noun, Head(table).optRed) THEN <<Head(table).cmd>>
    ELSE PhraseCommands_FirstOnly(s, Tail(table))

RECURSIVE PhraseCommands(_, _)
PhraseCommands(s, table) ==
    IF table = << >> THEN << >>
    ELSE (IF PhraseSearch(s, Head(table).noun, Head(table).optRed)
          THEN <<Head(table).cmd>> ELSE << >>)
         \o PhraseCommands(s, Tail(table))

\* Method 4: the natural-language fallback, every pattern of the table tried
Method4(completion) == PhraseCommands(str_lower(completion), Actions)

\* A faulty variant of IfNot, which C4_Cascade must tell from it: the method
\* runs whatever the methods before it found
IfNot_Append(commands, next) == commands \o next

\* "if not commands:" before a method: commands after the method, next
\* being what the method appends
IfNot(commands, next) == IF commands = << >> THEN next ELSE commands

\* Agent.parse_commands_from_ai(completion): each method runs only when the
\* ones before it left commands empty
parse_commands_from_ai(completion) ==
    Returned(IfNot(IfNot(IfNot(Method1(completion),
                               Method2(completion)),
                         Method3(completion)),
                   Method4(completion)))

---------------------------------------------------------------------------
(* Agent.extract_commands: the pattern table of the older fallback         *)

w_ing == <<"i", "n", "g">>
w_ed == <<"e", "d">>
w_e == <<"e">>
w_creat == <<"c", "r", "e", "a", "t">>
w_apply == <<"a", "p", "p", "l", "y">>
w_duplicate == <<"d", "u", "p", "l", "i", "c", "a", "t", "e">>
w_group == <<"g", "r", "o", "u", "p">>

\* stem(?:suffix|...) or stem(?:suffix|...)? matched at index i: the indices
\* after the matches the regex engine can settle on
AfterStem(s, i, stem, suffixes, optional) ==
    IF ~StartsWithAt(s, i, stem) THEN {}
    ELSE {i + Len(stem) + Len(suffixes[k]) :
            k \in {n \in 1..Len(suffixes) : StartsWithAt(s, i + Len(stem), suffixes[n])}}
         \cup (IF optional THEN {i + Len(stem)} ELSE {})

\* r is the end of the whitespace run starting at q
ArticleNounAfter(s, q, r, noun) ==
    /\ r > q
    /\ \/ NounAfter(s, LitWs(s, r, w_a), noun)
       \/ NounAfter(s, LitWs(s, r, w_the), noun)
       \/ r - q >= 2 /\ StartsWithAt(s, r, noun)

\* \s+(?:a|the)?\s+noun matched at index q: with the article, one run of
\* whitespace on each side of it; without, the two \s+ share one run of at
\* least two characters
ArticleNounAt(s, q, noun) == ArticleNounAfter(s, q, WsRunEnd(s, q), noun)

\* re.search(pattern, completion, re.IGNORECASE) for an entry of the list
\* patterns, s being the completion in lower case: an entry without a noun
\* is the bare stem
PatternSearch(s, pat) ==
    IF pat.noun = << >> THEN Contains(s, pat.stem)
    ELSE \E i \in 1..Len(s) :
            \E q \in AfterStem(s, i, pat.stem, pat.suffixes, pat.optional) :
                ArticleNounAt(s, q, pat.noun)

\* the list patterns of extract_commands
Patterns == <<
    [stem |-> w_add, suffixes |-> <<w_ing, w_ed>>, optional |-> TRUE, noun |-> w_cube,
     cmd |-> Cmd(s_AddCube, <<KV(s_size, PyNum(n_200))>>)],
    [stem |-> w_add, suffixes |-> <<w_ing, w_ed>>, optional |-> TRUE, noun |-> w_sphere,
     cmd |-> Cmd(s_AddSphere, <<KV(s_radius, PyNum(n_100))>>)],
    [stem |-> w_creat, suffixes |-> <<w_e, w_ing, w_ed>>, optional |-> FALSE, noun |-> w_material,
     cmd |-> Cmd(s_CreateMaterial, <<KV(s_name, PyStr(s_NewMaterial))>>)],
    [stem |-> w_apply, suffixes |-> <<w_ing, w_ed>>, optional |-> TRUE, noun |-> w_material,
     cmd |-> Cmd(s_ApplyMaterial, << >>)],
    [stem |-> w_add, suffixes |-> <<w_ing, w_ed>>, optional |-> TRUE, noun |-> w_camera,
     cmd |-> Cmd(s_AddCamera, << >>)],
    [stem |-> w_duplicate, suffixes |-> << >>, optional |-> TRUE, noun |-> << >>,
     cmd |-> Cmd(s_Duplicate, <<KV(s_count, PyNum(n_1))>>)],
    [stem |-> w_group, suffixes |-> <<w_ing, w_ed>>, optional |-> TRUE, noun |-> << >>,
     cmd |-> Cmd(s_GroupSelected, <<KV(s_name, PyStr(s_Group))>>)] >>

RECURSIVE PatternCommands(_, _)
PatternCommands(s, table) ==
    IF table = << >> THEN << >>
    ELSE (IF PatternSearch(s, Head(table)) THEN <<Head(table).cmd>> ELSE << >>)
         \o PatternCommands(s, Tail(table))

\* Agent.extract_commands(completion)
extract_commands(completion) ==
    Returned(PatternCommands(str_lower(completion), Patterns))

---------------------------------------------------------------------------
(* Bounds and inputs                                                       *)

\* lines of a rule file
MaxRuleLines == 2
\* blocks of a completion text handed to the extractors
MaxBlocks == 3

RuleCube ==
    PyDict(<<KV(s_prompt_contains, PyStr(<<"A", "d", "d", " ", "a", " ", "c", "u", "b", "e">>)),
             KV(s_commands, PyList(<<Cmd(s_AddCube, <<KV(s_size, PyNum(n_200))>>)>>))>>)
RuleAnyCube ==
    PyDict(<<KV(s_prompt_contains, PyStr(w_cube)),
             KV(s_commands, PyList(<<Cmd(s_AddSphere, <<KV(s_radius, PyNum(n_100))>>),
                                     Cmd(s_AddCamera, << >>)>>))>>)
RuleSphereEmpty ==
    PyDict(<<KV(s_prompt_contains, PyStr(w_sphere)), KV(s_commands, PyList(<< >>))>>)
RuleNoTrigger ==
    PyDict(<<KV(<<"d", "e", "s", "c", "r", "i", "p", "t", "i", "o", "n">>,
                PyStr(<<"n", "o", "t", "e">>))>>)

l_truncated == SubSeq(json_dumps(RuleCube), 1, Len(json_dumps(RuleCube)) - 2)
l_comment == <<" ", "#", " ", "r", "u", "l", "e", "s">>
l_blank == <<" ">>

\* the lines a rule file is made of: four rules as json.dumps writes them, a
\* line that is JSON but no object, a truncated rule, a comment and a blank
\* line
RuleLines ==
    { json_dumps(RuleCube), json_dumps(RuleAnyCube), json_dumps(RuleSphereEmpty),
      json_dumps(RuleNoTrigger),
      <<"5">>,
      l_truncated,
      l_comment,
      l_blank }

RuleFiles ==
    {[exists |-> FALSE, lines |-> << >>]}
    \cup {[exists |-> TRUE, lines |-> ls] :
            ls \in UNION {[1..n -> RuleLines] : n \in 0..MaxRuleLines}}

Prompts ==
    { <<"A", "D", "D", " ", "A", " ", "C", "U", "B", "E", " ", "p", "l", "e", "a", "s", "e">>,
      <<"a", " ", "C", "u", "b", "e">>,
      <<"m", "a", "k", "e", " ", "a", " ", "s", "p", "h", "e", "r", "e">>,
      <<"h", "e", "l", "l", "o">> }

s_sk == <<"s", "k">>

\* the (key, value) pairs saved to the preferences
PrefWrites ==
    { [key |-> s_use_rules, value |-> PyBool(TRUE)],
      [key |-> s_use_rules, value |-> PyBool(FALSE)],
      [key |-> s_claude_api_key, value |-> PyStr(s_sk)] }

\* completion texts: the blocks they are made of.  b_cube is what json.dumps
\* writes; b_pretty an object over several lines; b_gap an object with an
\* empty line inside; b_pair two objects and, between them, one with an
\* unquoted value, on three lines; b_noaction and b_list JSON that is no
\* command; b_bad a truncated object; b_fenced two fenced regions, the first
\* holding b_bad; b_fenced_array a fenced region tagged json that holds an
\* array of two commands, a number and an object without "action"; b_prose
\* and b_prose2 text without JSON
b_cube == json_dumps(Cmd(s_AddCube, <<KV(s_size, PyNum(n_100))>>))
b_pretty ==
    <<"\n", "{", "\n", " ", " ">> \o <<Q>> \o s_action \o <<Q, ":", " ", Q>> \o s_CreateMaterial
    \o <<Q, ",", "\n", " ", " ", Q>> \o s_args \o <<Q, ":", " ", "{", "}", "\n", "}", " ">>
b_gap ==
    <<"{", "\n", "\n", Q>> \o s_action \o <<Q, ":", " ", Q>> \o s_AddSphere \o <<Q, "}">>
b_bare == <<"{", Q>> \o s_action \o <<Q, ":", " ">> \o s_AddLight \o <<"}">>
b_pair ==
    json_dumps(PyDict(<<KV(s_action, PyStr(s_AddCamera))>>)) \o <<"\n">> \o b_bare \o <<"\n">>
    \o json_dumps(PyDict(<<KV(s_action, PyStr(s_AddLight))>>))
b_noaction == json_dumps(PyDict(<<KV(s_size, PyNum(n_100))>>))
b_list == json_dumps(PyList(<<PyStr(s_action)>>))
b_bad == SubSeq(b_cube, 1, Len(b_cube) - 2)
b_fenced ==
    s_fence \o s_json \o <<"\n">> \o b_bad \o <<"\n">> \o s_fence \o <<"\n">>
    \o s_fence \o <<" ", "\n">> \o b_cube \o <<"\n">> \o s_fence
b_array ==
    json_dumps(PyList(<<Cmd(s_AddCube, <<KV(s_size, PyNum(n_100))>>), PyNum(n_1),
                        PyDict(<<KV(s_size, PyNum(n_100))>>),
                        PyDict(<<KV(s_action, PyStr(s_AddCamera))>>)>>))
b_fenced_array ==
    s_fence \o s_json \o <<" ", "\n">> \o b_array \o <<"\n">> \o s_fence
b_prose ==
    <<"p", "l", "e", "a", "s", "e", " ", "a", "d", "d", " ", "a", " ", "c", "u", "b", "e", " ",
      "a", "n", "d", " ", "a", " ", "s", "p", "h", "e", "r", "e">>
b_prose2 ==
    <<"A", "d", "d", " ", "a", " ", "c", "u", "b", "e", ",", " ", "t", "h", "e", "n", " ",
      "M", "A", "K", "E", " ", "a", " ", "l", "i", "g", "h", "t", " ", "a", "n", "d", " ",
      "a", "d", "d", " ", " ", "t", "h", "e", " ", "s", "p", "h", "e", "r", "e">>

Blocks ==
    { b_cube, b_pretty, b_gap, b_pair, b_noaction, b_list, b_bad, b_fenced, b_fenced_array,
      b_prose, b_prose2 }

\* the blocks joined by blank lines
RECURSIVE JoinBlocks(_)
JoinBlocks(bs) ==
    IF bs = << >> THEN << >>
    ELSE IF Len(bs) = 1 THEN bs[1]
    ELSE bs[1] \o s_blank_line \o JoinBlocks(Tail(bs))

BlockSeqs == UNION {[1..n -> Blocks] : n \in 0..MaxBlocks}

\* what the LLM client returns on success: the decoded response body
TextBlock(text) == PyDict(<<KV(s_type, PyStr(s_text)), KV(s_text, PyStr(text))>>)
Response(blocks) == PyDict(<<KV(s_content, PyList(blocks))>>)

b_cube_noargs == json_dumps(Cmd(s_AddCube, << >>))

Responses ==
    { Response(<<TextBlock(b_cube_noargs)>>),
      Response(<<TextBlock(JoinBlocks(<<b_cube, b_pretty>>))>>),
      Response(<<TextBlock(b_cube), TextBlock(b_cube_noargs)>>),
      Response(<<PyDict(<<KV(s_type, PyStr(<<"t", "o", "o", "l", "_", "u", "s", "e">>))>>),
                 TextBlock(b_prose)>>),
      Response(<<TextBlock(b_bad)>>),
      Response(<<TextBlock(<< >>)>>),
      PyDict(<< >>),
      PyNone,
      PyDict(<<KV(s_content, PyStr(b_prose))>>),
      Response(<<TextBlock(b_prose), PyStr(s_text)>>),
      Response(<<PyDict(<<KV(s_type, PyStr(s_text))>>), TextBlock(b_prose)>>),
      Response(<<TextBlock(b_prose), PyDict(<<KV(s_type, PyStr(s_text)), KV(s_text, PyNum(n_1))>>)>>) }

e_missing_key ==
    <<"M", "i", "s", "s", "i", "n", "g", " ", "A", "P", "I", " ", "k", "e", "y", ".", " ",
      "P", "l", "e", "a", "s", "e", " ", "c", "o", "n", "f", "i", "g", "u", "r", "e", " ",
      "i", "t", " ", "i", "n", " ", "S", "e", "t", "t", "i", "n", "g", "s", ".">>

\* str(e) of what the HTTP request raises: a non-200 status, a network error
ClientFailures ==
    { <<"4", "0", "1", " ", "-", " ", "u", "n", "a", "u", "t", "h", "o", "r", "i", "z", "e", "d">>,
      <<"t", "i", "m", "e", "d", " ", "o", "u", "t">> }

---------------------------------------------------------------------------
(* Agent.process_prompt                                                    *)

s_rule_completion ==
    <<"E", "x", "e", "c", "u", "t", "i", "n", "g", " ", "p", "r", "e", "d", "e", "f", "i", "n",
      "e", "d", " ", "r", "u", "l", "e">>
s_error_prefix == <<"E", "r", "r", "o", "r", ":", " ">>

\* what call_claude did
NoReply == [kind |-> "none", v |-> PyNone, msg |-> << >>]
Replied(response) == [kind |-> "returned", v |-> response, msg |-> << >>]
Failed(msg) == [kind |-> "raised", v |-> PyNone, msg |-> msg]

NoResult == [source |-> "none", completion |-> << >>, commands |-> PyList(<< >>)]

RuleEnvelope(commands) ==
    [source |-> "rule", completion |-> s_rule_completion, commands |-> commands]

AiEnvelope(text, commands) ==
    [source |-> "ai", completion |-> text, commands |-> PyList(commands)]

\* A faulty variant of ErrorEnvelope, which C2_ClientFailure must tell from
\* it: the completion is the bare message
ErrorEnvelope_Bare(msg) ==
    [source |-> "error", completion |-> msg, commands |-> PyList(<< >>)]

\* the except branch of process_prompt
ErrorEnvelope(msg) ==
    [source |-> "error", completion |-> s_error_prefix \o msg, commands |-> PyList(<< >>)]

\* get_api_key()
get_api_key(bc) == load_pref(bc, s_claude_api_key, PyStr(<< >>))

\* A faulty variant of AfterExtract, which C9_ExtractionMiss must tell from
\* it: an empty command list is reported as an error
AfterExtract_ErrorOnMiss(text, ex) ==
    IF ex.raised THEN ErrorEnvelope(ex.msg)
    ELSE IF ex.v = << >> THEN ErrorEnvelope(text)
    ELSE AiEnvelope(text, ex.v)

\* the envelope for the completion text and what the extractor gave
AfterExtract(text, ex) ==
    IF ex.raised THEN ErrorEnvelope(ex.msg) ELSE AiEnvelope(text, ex.v)

AfterText(text) == AfterExtract(text, extract_commands_from_text(text))

\* process_prompt after call_claude returned response: unwrap the text,
\* extract the commands, build the envelope
AfterResponse(response) == AfterText(extract_text_from_claude_response(response))

\* A faulty variant of AfterMatch, which C23_EmptyRuleFallsThrough must tell
\* from it: whatever list match_prompt returns ends the call, empty or not
AfterMatch_AnyList(bc, m) ==
    IF m.raised
    THEN [done |-> TRUE, result |-> ErrorEnvelope(m.msg), called |-> FALSE, reply |-> NoReply]
    ELSE [done |-> TRUE, result |-> RuleEnvelope(m.v), called |-> FALSE, reply |-> NoReply]

\* A faulty variant of AfterMatch, which C1_RuleHit must tell from it: a rule
\* hit does not end the call, the LLM client is asked all the same
AfterMatch_NoShortCircuit(bc, m) ==
    IF m.raised
    THEN [done |-> TRUE, result |-> ErrorEnvelope(m.msg), called |-> FALSE, reply |-> NoReply]
    ELSE IF ~Truthy(get_api_key(bc))
    THEN [done |-> TRUE, result |-> ErrorEnvelope(e_missing_key), called |-> TRUE,
          reply |-> Failed(e_missing_key)]
    ELSE [done |-> FALSE, result |-> NoResult, called |-> TRUE, reply |-> NoReply]

\* m is what match_prompt gave
AfterMatch(bc, m) ==
    IF m.raised
    THEN [done |-> TRUE, result |-> ErrorEnvelope(m.msg), called |-> FALSE, reply |-> NoReply]
    ELSE IF Truthy(m.v)
    THEN [done |-> TRUE, result |-> RuleEnvelope(m.v), called |-> FALSE, reply |-> NoReply]
    ELSE IF ~Truthy(get_api_key(bc))
    THEN [done |-> TRUE, result |-> ErrorEnvelope(e_missing_key), called |-> TRUE,
          reply |-> Failed(e_missing_key)]
    ELSE [done |-> FALSE, result |-> NoResult, called |-> TRUE, reply |-> NoReply]

\* process_prompt up to the HTTP request: the rule match, then call_claude's
\* check of the API key.  [done, result, called, reply]: done says that
\* process_prompt returned, called that call_claude was entered, reply what
\* call_claude did so far
BeforeRequest(rs, bc, p) == AfterMatch(bc, match_prompt(rs, bc, p))

---------------------------------------------------------------------------
(* The agent: actions                                                      *)

\* the values the inputs are drawn from, computed once
LoadedRulesOf == [f \in RuleFiles |-> LoadedRules(f)]
AfterResponseOf == [r \in Responses |-> AfterResponse(r)]

\* A faulty variant of AssignRules, which C14_ReplacedWholesale must tell from
\* it: the rules read are appended to the rule set in place
AssignRules_Merged(current, loaded) == current \o loaded

\* "self.rules = rules": the rule set after the assignment, current being
\* the rule set before it and loaded the list built from the file
AssignRules(current, loaded) == loaded

\* Agent.reload_rules() reading file: self.rules is replaced, True returned
ReloadRules(file) ==
    /\ pc = "idle"
    /\ ruleFile' = file
    /\ rules' = AssignRules(rules, LoadedRulesOf[file])
    /\ reloadReturn' = PyBool(TRUE)
    /\ prompt' = << >>
    /\ result' = NoResult
    /\ llmCalled' = FALSE
    /\ llmReply' = NoReply
    /\ UNCHANGED <<prefs, pc>>

\* Agent.reload_rules() when reading raises (an I/O error): the except
\* branch returns False before self.rules is assigned
ReloadRulesError ==
    /\ pc = "idle"
    /\ reloadReturn' = PyBool(FALSE)
    /\ prompt' = << >>
    /\ result' = NoResult
    /\ llmCalled' = FALSE
    /\ llmReply' = NoReply
    /\ UNCHANGED <<ruleFile, rules, prefs, pc>>

\* save_pref(key, value)
SavePref(w) ==
    /\ pc = "idle"
    /\ prefs' = save_pref(prefs, w.key, w.value)
    /\ reloadReturn' = PyNone
    /\ prompt' = << >>
    /\ result' = NoResult
    /\ llmCalled' = FALSE
    /\ llmReply' = NoReply
    /\ UNCHANGED <<ruleFile, rules, pc>>

\* A faulty variant of ProcessPrompt, which C22_Stateless must tell from it:
\* the agent remembers the last rule hit and answers the next prompt with it
ProcessPrompt_Remembering(p) ==
    /\ pc = "idle"
    /\ \E b \in {BeforeRequest(rules, prefs, p)} :
        /\ prompt' = p
        /\ llmCalled' = IF result.source = "rule" THEN FALSE ELSE b.called
        /\ llmReply' = IF result.source = "rule" THEN NoReply ELSE b.reply
        /\ pc' = IF result.source = "rule" \/ b.done THEN "idle" ELSE "calling"
        /\ result' = IF result.source = "rule" THEN result ELSE b.result
    /\ reloadReturn' = PyNone
    /\ UNCHANGED <<ruleFile, rules, prefs>>

\* Agent.process_prompt(p) from its entry to its return or to the HTTP request
ProcessPrompt(p) ==
    /\ pc = "idle"
    /\ \E b \in {BeforeRequest(rules, prefs, p)} :
        /\ prompt' = p
        /\ llmCalled' = b.called
        /\ llmReply' = b.reply
        /\ pc' = IF b.done THEN "idle" ELSE "calling"
        /\ result' = b.result
    /\ reloadReturn' = PyNone
    /\ UNCHANGED <<ruleFile, rules, prefs>>

\* the HTTP request returns status 200 with body response
ClientReturns(response) ==
    /\ pc = "calling"
    /\ pc' = "idle"
    /\ result' = AfterResponseOf[response]
    /\ llmReply' = Replied(response)
    /\ UNCHANGED <<ruleFile, rules, reloadReturn, prefs, prompt, llmCalled>>

\* the HTTP request fails: call_claude raises, process_prompt catches
ClientRaises(msg) ==
    /\ pc = "calling"
    /\ pc' = "idle"
    /\ result' = ErrorEnvelope(msg)
    /\ llmReply' = Failed(msg)
    /\ UNCHANGED <<ruleFile, rules, reloadReturn, prefs, prompt, llmCalled>>

\* Agent(): self.rules = [] and the first reload_rules()
Init ==
    /\ \E f \in RuleFiles : ruleFile = f /\ rules = LoadedRulesOf[f]
    /\ reloadReturn = PyBool(TRUE)
    /\ prefs = NoContainer
    /\ pc = "idle"
    /\ prompt = << >>
    /\ result = NoResult
    /\ llmCalled = FALSE
    /\ llmReply = NoReply
    /\ exParts = << >>
    /\ exText = << >>
    /\ exDone = {}
    /\ exApi = Returned(<< >>)
    /\ exAgent = Returned(<< >>)
    /\ exNL = Returned(<< >>)
    /\ exResult = NoResult
    /\ ConcUnused
    /\ ArgsUnused
    /\ DialogUnused
    /\ ExecUnused
    /\ PythonUnused

Next ==
    \/ \E f \in RuleFiles : ReloadRules(f) /\ UNCHANGED <<exVars, concVars, argVars, dlgVars, execVars, pyVars>>
    \/ ReloadRulesError /\ UNCHANGED <<exVars, concVars, argVars, dlgVars, execVars, pyVars>>
    \/ \E w \in PrefWrites : SavePref(w) /\ UNCHANGED <<exVars, concVars, argVars, dlgVars, execVars, pyVars>>
    \/ \E p \in Prompts : ProcessPrompt(p) /\ UNCHANGED <<exVars, concVars, argVars, dlgVars, execVars, pyVars>>
    \/ \E r \in Responses : ClientReturns(r) /\ UNCHANGED <<exVars, concVars, argVars, dlgVars, execVars, pyVars>>
    \/ \E m \in ClientFailures : ClientRaises(m) /\ UNCHANGED <<exVars, concVars, argVars, dlgVars, execVars, pyVars>>

Spec == Init /\ [][Next]_vars

---------------------------------------------------------------------------
(* The extractors applied, one after the other, to a completion text       *)

RunExtractCommandsFromText ==
    /\ exDone = {}
    /\ exDone' = exDone \cup {"api"}
    /\ exApi' = extract_commands_from_text(exText)
    /\ UNCHANGED <<exParts, exText, exAgent, exNL, exResult>>

RunParseCommandsFromAi ==
    /\ exDone = {"api"}
    /\ exDone' = exDone \cup {"agent"}
    /\ exAgent' = parse_commands_from_ai(exText)
    /\ UNCHANGED <<exParts, exText, exApi, exNL, exResult>>

RunExtractCommands ==
    /\ exDone = {"api", "agent"}
    /\ exDone' = exDone \cup {"nl"}
    /\ exNL' = extract_commands(exText)
    /\ UNCHANGED <<exParts, exText, exApi, exAgent, exResult>>

\* process_prompt from the completion text on: the extractor it calls and
\* the envelope it returns
RunProcessPromptTail ==
    /\ exDone = {"api", "agent", "nl"}
    /\ exDone' = exDone \cup {"prompt"}
    /\ exResult' = AfterText(exText)
    /\ UNCHANGED <<exParts, exText, exApi, exAgent, exNL>>

ExtractInit ==
    /\ ruleFile = [exists |-> FALSE, lines |-> << >>]
    /\ rules = << >>
    /\ reloadReturn = PyBool(TRUE)
    /\ prefs = NoContainer
    /\ pc = "idle"
    /\ prompt = << >>
    /\ result = NoResult
    /\ llmCalled = FALSE
    /\ llmReply = NoReply
    /\ \E bs \in BlockSeqs : exParts = bs /\ exText = JoinBlocks(bs)
    /\ exDone = {}
    /\ exApi = Returned(<< >>)
    /\ exAgent = Returned(<< >>)
    /\ exNL = Returned(<< >>)
    /\ exResult = NoResult
    /\ ConcUnused
    /\ ArgsUnused
    /\ DialogUnused
    /\ ExecUnused
    /\ PythonUnused

ExtractNext ==
    \/ RunExtractCommandsFromText /\ UNCHANGED <<agentVars, concVars, argVars, dlgVars, execVars, pyVars>>
    \/ RunParseCommandsFromAi /\ UNCHANGED <<agentVars, concVars, argVars, dlgVars, execVars, pyVars>>
    \/ RunExtractCommands /\ UNCHANGED <<agentVars, concVars, argVars, dlgVars, execVars, pyVars>>
    \/ RunProcessPromptTail /\ UNCHANGED <<agentVars, concVars, argVars, dlgVars, execVars, pyVars>>

ExtractSpec == ExtractInit /\ [][ExtractNext]_vars


---------------------------------------------------------------------------
(* Properties of Agent.process_prompt and Agent.match_prompt, stated over  *)
(* the states of Spec                                                      *)

\* a process_prompt call is in progress, or was the last operation
Active == pc = "calling" \/ result.source # "none"

\* the "rules enabled" flag: the use_rules preference, true when absent
RulesEnabled == load_pref(prefs, s_use_rules, PyBool(TRUE)).b

\* C1: when rule matching is enabled and match_prompt returns a non-empty
\* command list for the prompt, process_prompt returns source "rule" with
\* exactly that command list, and the LLM client is not called during the
\* call (call_claude is not entered, no reply is received).
C1_RuleHit ==
    Active =>
        \A m \in {match_prompt(rules, prefs, prompt)} :
            (RulesEnabled /\ ~m.raised /\ Truthy(m.v)) =>
                /\ pc = "idle"
                /\ result.source = "rule"
                /\ result.commands = m.v
                /\ ~llmCalled
                /\ llmReply = NoReply

\* a rule hit with an API key configured: the second of two loaded rules
\* matches and its two commands are returned
C1_Witness ==
    /\ pc = "idle"
    /\ rules = <<RuleSphereEmpty, RuleAnyCube>>
    /\ Truthy(get_api_key(prefs))
    /\ result.source = "rule"
    /\ result.commands = Get(RuleAnyCube, s_commands)
    /\ ~llmCalled

\* C2: for every failure raised by the LLM client (a network error, an HTTP
\* error status, the missing API key) process_prompt returns, and what it
\* returns is the envelope with source "error", completion "Error: " followed
\* by the message of the failure, and an empty command list.
C2_ClientFailure ==
    llmReply.kind = "raised" =>
        /\ pc = "idle"
        /\ result = [source |-> "error",
                     completion |-> <<"E", "r", "r", "o", "r", ":", " ">> \o llmReply.msg,
                     commands |-> PyList(<< >>)]

\* the HTTP request of a call timed out
C2_Witness ==
    /\ pc = "idle"
    /\ llmCalled
    /\ llmReply = Failed(<<"t", "i", "m", "e", "d", " ", "o", "u", "t">>)
    /\ result.source = "error"

\* C3 (as the specification states it): on the AI path process_prompt returns
\* source "ai", the unwrapped response text as completion, and the extracted
\* commands each normalized for its action; in particular an extracted
\* AddCube command with empty args is returned with args {size: 200}.
C3_Normalized ==
    (pc = "idle" /\ llmReply.kind = "returned") =>
        \A text \in {extract_text_from_claude_response(llmReply.v)} :
            \A ex \in {extract_commands_from_text(text)} :
                /\ result.source = "ai"
                /\ result.completion = text
                /\ Len(result.commands.items) = Len(ex.v)
                /\ \A i \in 1..Len(ex.v) :
                    (/\ Get(ex.v[i], s_action) = PyStr(s_AddCube)
                     /\ HasKey(ex.v[i], s_args)
                     /\ Get(ex.v[i], s_args) = PyDict(<< >>))
                    => Get(result.commands.items[i], s_args)
                         = PyDict(<<KV(s_size, PyNum(n_200))>>)

\* the rule is an object whose trigger, when it has one, is a string
IsRule(rule) ==
    IsDict(rule) /\ (HasKey(rule, s_prompt_contains) => IsStr(Get(rule, s_prompt_contains)))

\* t occurs in p, letter case ignored
OccursIgnoringCase(t, p) ==
    \E i \in 1..(Len(p) - Len(t) + 1) :
        \A k \in 1..Len(t) : LowerChar(p[i + k - 1]) = LowerChar(t[k])

\* the trigger of the rule occurs in p, letter case ignored
Triggered(rule, p) ==
    HasKey(rule, s_prompt_contains) /\ OccursIgnoringCase(Get(rule, s_prompt_contains).s, p)

\* C5: with rule matching enabled and a rule set of rule objects, match_prompt
\* returns the commands of the first rule, in load order, whose trigger occurs
\* in the prompt with letter case ignored, whatever rules after it match as
\* well; it returns the empty list when no trigger occurs.
C5_FirstMatch ==
    (Active /\ RulesEnabled /\ \A i \in 1..Len(rules) : IsRule(rules[i])) =>
        \A hits \in {{i \in 1..Len(rules) : Triggered(rules[i], prompt)}} :
            match_prompt(rules, prefs, prompt) =
                IF hits = {} THEN Returned(PyList(<< >>))
                ELSE Returned(RuleCommands(rules[Least(hits)]))

\* the prompt "ADD A CUBE please" against the triggers "Add a cube" and
\* "cube", loaded in this order: both occur, the first rule's commands are
\* returned
C5_Witness ==
    /\ pc = "idle"
    /\ RulesEnabled
    /\ rules = <<RuleCube, RuleAnyCube>>
    /\ prompt = <<"A", "D", "D", " ", "A", " ", "C", "U", "B", "E", " ",
                  "p", "l", "e", "a", "s", "e">>
    /\ result.source = "rule"
    /\ result.commands = Get(RuleCube, s_commands)

\* C6: when the use_rules preference is false, match_prompt returns the empty
\* list for every prompt and every loaded rule set, and process_prompt does
\* not return source "rule".
C6_RulesDisabled ==
    (Active /\ ~RulesEnabled) =>
        /\ match_prompt(rules, prefs, prompt) = Returned(PyList(<< >>))
        /\ result.source # "rule"

\* rules disabled, a loaded rule whose trigger occurs in the prompt, and the
\* call answered by the LLM
C6_Witness ==
    /\ pc = "idle"
    /\ ~RulesEnabled
    /\ rules = <<RuleCube>>
    /\ Triggered(RuleCube, prompt)
    /\ prompt # << >>
    /\ llmReply.kind = "returned"
    /\ result.source = "ai"


---------------------------------------------------------------------------
(* Properties of the extractors, stated over the states of ExtractSpec     *)

\* the elements of seq at the indices in keep, in their order in seq
Kept(seq, keep) ==
    [j \in 1..Cardinality(keep) |->
        seq[CHOOSE i \in keep : Cardinality({k \in keep : k <= i}) = j]]

\* the blocks that are well-formed JSON objects with an "action" key,
\* decoded, in their order
KeptCommands(blocks) ==
    Kept([i \in 1..Len(blocks) |-> json_loads(blocks[i]).v],
         {i \in 1..Len(blocks) :
            json_loads(blocks[i]).ok /\ IsCommand(json_loads(blocks[i]).v)})

\* C4: parse_commands_from_ai is a strict cascade over its four methods
\* (blank-line blocks, fenced code blocks, brace-scanning regex, verb
\* phrases): for every text its result is the result of one method, the first
\* one that yields at least one command, and it is empty when none does; a
\* method contributes nothing once a method before it has produced a command.
C4_Cascade ==
    "agent" \in exDone =>
        \A ms \in {<<Method1(exText), Method2(exText), Method3(exText), Method4(exText)>>} :
            \A yielding \in {{k \in 1..4 : ms[k] # << >>}} :
                exAgent = Returned(IF yielding = {} THEN << >> ELSE ms[Least(yielding)])

\* a text on which the blank-line blocks yield nothing while both the fenced
\* code blocks and the brace scan yield commands, different ones: the result
\* is that of the fenced code blocks alone
C4_Witness ==
    /\ "agent" \in exDone
    /\ exParts = <<b_fenced, b_pair>>
    /\ Method1(exText) = << >>
    /\ Method2(exText) # << >>
    /\ Method3(exText) # << >>
    /\ Method3(exText) # Method2(exText)
    /\ exAgent = Returned(Method2(exText))

\* C7 (as the specification states it): for a text made of k well-formed JSON
\* objects, each with an "action" key, separated by blank lines, both
\* extractors return exactly those k commands in their original order.
C7_AnyObjects ==
    (/\ {"api", "agent"} \subseteq exDone
     /\ exParts # << >>
     /\ \A i \in 1..Len(exParts) :
            json_loads(exParts[i]).ok /\ IsCommand(json_loads(exParts[i]).v))
    => /\ exApi = Returned([i \in 1..Len(exParts) |-> json_loads(exParts[i]).v])
       /\ exAgent = exApi

\* C7: for a text made of blocks separated by blank lines, none of which has
\* an empty line inside, extract_commands_from_text returns exactly the
\* blocks that are well-formed JSON objects with an "action" key, decoded
\* with action and args unchanged, in their original order (one block that
\* json.dumps wrote for a command gives back that command); a block that is
\* JSON but no object with an "action" key is not accepted.  When at least
\* one block is accepted parse_commands_from_ai returns the same list.
C7_BlankLineBlocks ==
    (/\ {"api", "agent"} \subseteq exDone
     /\ \A i \in 1..Len(exParts) : ~Contains(exParts[i], s_blank_line))
    => /\ exApi = Returned(KeptCommands(exParts))
       /\ exApi.v # << >> => exAgent = exApi

\* an object written over several lines, a JSON list and what json.dumps
\* writes for an AddCube command of size 100: the first and the third are
\* returned, the list is not
C7_Witness ==
    /\ {"api", "agent"} \subseteq exDone
    /\ exParts = <<b_pretty, b_list, b_cube>>
    /\ json_loads(b_list).ok
    /\ exApi.v = <<Cmd(s_CreateMaterial, << >>), Cmd(s_AddCube, <<KV(s_size, PyNum(n_100))>>)>>
    /\ exAgent = exApi

\* C9: an extraction miss is not an error.  No extractor raises; when none of
\* the four methods produces a command, the empty text included, both
\* extract_commands_from_text and parse_commands_from_ai return the empty
\* list; and when extract_commands_from_text returns the empty list
\* process_prompt returns source "ai" with the text as completion and an
\* empty command list.
C9_ExtractionMiss ==
    "prompt" \in exDone =>
        /\ ~exApi.raised /\ ~exAgent.raised
        /\ (/\ Method1(exText) = << >> /\ Method2(exText) = << >>
            /\ Method3(exText) = << >> /\ Method4(exText) = << >>)
           => (exApi.v = << >> /\ exAgent.v = << >>)
        /\ exApi.v = << >> =>
             exResult = [source |-> "ai", completion |-> exText, commands |-> PyList(<< >>)]

\* a truncated object and a JSON list: no method finds a command in the text
C9_Witness ==
    /\ "prompt" \in exDone
    /\ exParts = <<b_bad, b_list>>
    /\ exText # << >>
    /\ exAgent = Returned(<< >>)
    /\ exResult.source = "ai"
    /\ exResult.commands = PyList(<< >>)


\* the indices after one or more whitespace characters that start at an
\* index of from
AfterWhitespace(s, from) ==
    {j \in 2..(Len(s) + 1) :
        \E p \in from : p < j /\ \A k \in p..(j - 1) : s[k] \in Whitespace}

\* the indices after a word of words that starts at an index of from
AfterWord(s, from, words) ==
    {j \in 1..(Len(s) + 1) :
        \E w \in words : /\ j > Len(w)
                         /\ j - Len(w) \in from
                         /\ SubSeq(s, j - Len(w), j - 1) = w}

\* the indices after "create", "add" or "make", whitespace, "a", whitespace
AfterArticle(s) ==
    AfterWhitespace(s,
        AfterWord(s, AfterWhitespace(s, AfterWord(s, 1..Len(s), {w_create, w_add, w_make})),
                  {w_a}))

\* s, in lower case, holds a verb phrase for noun: one of the verbs, the
\* article "a", then the noun, after "red" where the pattern allows it
VerbPhraseIn(s, noun, optRed) ==
    \/ AfterWord(s, AfterArticle(s), {noun}) # {}
    \/ optRed /\ AfterWord(s, AfterWhitespace(s, AfterWord(s, AfterArticle(s), {w_red})),
                           {noun}) # {}

ObjectCodeBlocks(s) ==
    \A blocks \in {CodeBlocks(s, 1)} :
        \A i \in 1..Len(blocks) : CharAt(str_strip(blocks[i]), 1) # "["

\* C10: at each of the three JSON stages a block or match that fails to
\* decode is skipped alone: the stage yields every sibling block or match
\* that is a well-formed object with an "action" key, in order, wherever the
\* malformed ones stand.  extract_commands_from_text returns what the
\* blank-line stage yields on the stripped text; parse_commands_from_ai
\* returns what the first of its stages to yield a command yields.
C10_SkippedLocally ==
    {"api", "agent"} \subseteq exDone =>
        /\ exApi.v = KeptCommands(str_split(str_strip(exText), s_blank_line))
        /\ \A c1 \in {KeptCommands(str_split(exText, s_blank_line))} :
           \A c2 \in {KeptCommands(CodeBlocks(exText, 1))} :
           \A c3 \in {KeptCommands(BraceMatches(exText, 1))} :
              /\ c1 # << >> => exAgent.v = c1
              /\ (c1 = << >> /\ c2 # << >> /\ ObjectCodeBlocks(exText)) => exAgent.v = c2
              /\ (c1 = << >> /\ c2 = << >> /\ c3 # << >> /\ ObjectCodeBlocks(exText))
                    => exAgent.v = c3

\* a well-formed command between two truncated objects: it is returned by
\* both extractors
C10_Witness ==
    /\ {"api", "agent"} \subseteq exDone
    /\ exParts = <<b_bad, b_cube, b_bad>>
    /\ ~json_loads(b_bad).ok
    /\ exApi.v = <<Cmd(s_AddCube, <<KV(s_size, PyNum(n_100))>>)>>
    /\ exAgent.v = exApi.v


\* the contents of the fenced regions of a block of Blocks, in text order,
\* as the block was written
RegionsOf(part) ==
    IF part = b_fenced THEN <<b_bad, b_cube>>
    ELSE IF part = b_fenced_array THEN <<b_array>>
    ELSE << >>

\* the commands the list of region contents is to contribute, region by
\* region
RECURSIVE RegionsCommands(_)
RegionsCommands(contents) ==
    IF contents = << >> THEN << >>
    ELSE (IF ~json_loads(Head(contents)).ok THEN << >>
          ELSE IF IsList(json_loads(Head(contents)).v)
          THEN Kept(json_loads(Head(contents)).v.items,
                    {i \in 1..Len(json_loads(Head(contents)).v.items) :
                        IsCommand(json_loads(Head(contents)).v.items[i])})
          ELSE IF IsCommand(json_loads(Head(contents)).v) THEN <<json_loads(Head(contents)).v>>
          ELSE << >>)
         \o RegionsCommands(Tail(contents))

\* the fenced regions of the parts, in text order
RECURSIVE PartsRegions(_)
PartsRegions(parts) ==
    IF parts = << >> THEN << >> ELSE RegionsOf(Head(parts)) \o PartsRegions(Tail(parts))

\* C11: when the blank-line stage yields nothing, parse_commands_from_ai
\* takes the fenced regions (three backticks, optionally tagged json, the
\* content on lines of its own) in text order: a region whose content is a
\* JSON array contributes every element that is an object with an "action"
\* key, in array order; a region whose content is a JSON object contributes
\* that object if it has an "action" key; a region that does not decode
\* contributes nothing.  The result is what the regions contribute whenever
\* that is at least one command.
C11_FencedRegions ==
    ("agent" \in exDone /\ Method1(exText) = << >>) =>
        \A expected \in {RegionsCommands(PartsRegions(exParts))} :
            /\ Method2(exText) = expected
            /\ expected # << >> => exAgent = Returned(expected)

\* an array region with two commands among four elements, then two regions
\* of which the second holds one command: three commands, in text order
C11_Witness ==
    /\ "agent" \in exDone
    /\ exParts = <<b_fenced_array, b_prose, b_fenced>>
    /\ Method1(exText) = << >>
    /\ exAgent.v = <<Cmd(s_AddCube, <<KV(s_size, PyNum(n_100))>>),
                     PyDict(<<KV(s_action, PyStr(s_AddCamera))>>),
                     Cmd(s_AddCube, <<KV(s_size, PyNum(n_100))>>)>>


---------------------------------------------------------------------------
(* Properties of extract_text_from_claude_response, stated over the        *)
(* responses the LLM client returns in Spec                                *)

\* block is a mapping and, when its type is "text", carries a string "text"
IsBlock(block) ==
    /\ IsDict(block)
    /\ (HasKey(block, s_type) /\ Get(block, s_type) = PyStr(s_text))
       => (HasKey(block, s_text) /\ IsStr(Get(block, s_text)))

\* the response is a mapping whose "content" is a sequence of blocks
HasBlocks(response) ==
    /\ IsDict(response)
    /\ HasKey(response, s_content)
    /\ IsList(Get(response, s_content))
    /\ \A i \in 1..Len(Get(response, s_content).items) :
            IsBlock(Get(response, s_content).items[i])

\* the texts, each followed by a line break
RECURSIVE Lines(_)
Lines(texts) == IF texts = << >> THEN << >> ELSE Head(texts).s \o <<"\n">> \o Lines(Tail(texts))

\* C12: extract_text_from_claude_response is total.  For a response whose
\* "content" is a sequence of blocks it returns the "text" of the blocks of
\* type "text", in order, joined by a line break, the blocks of other types
\* ignored; for every other response it returns the empty text; it never
\* raises, so process_prompt returns source "ai" with that text as completion.
C12_ExtractTextTotal ==
    (pc = "idle" /\ llmReply.kind = "returned") =>
        \A text \in {extract_text_from_claude_response(llmReply.v)} :
            /\ result.source = "ai"
            /\ result.completion = text
            /\ ~HasBlocks(llmReply.v) => text = << >>
            /\ HasBlocks(llmReply.v) =>
                 \A blocks \in {Get(llmReply.v, s_content).items} :
                 \A texts \in {Kept([i \in 1..Len(blocks) |-> Get(blocks[i], s_text)],
                                    {i \in 1..Len(blocks) :
                                        /\ HasKey(blocks[i], s_type)
                                        /\ Get(blocks[i], s_type) = PyStr(s_text)})} :
                    text \o (IF texts = << >> THEN << >> ELSE <<"\n">>) = Lines(texts)

\* a tool_use block followed by a text block: the text of the second alone
C12_Witness ==
    /\ pc = "idle"
    /\ llmReply.kind = "returned"
    /\ HasBlocks(llmReply.v)
    /\ Len(Get(llmReply.v, s_content).items) = 2
    /\ ~HasKey(Get(llmReply.v, s_content).items[1], s_text)
    /\ result.completion = b_prose


---------------------------------------------------------------------------
(* Properties of Agent.reload_rules, stated over the states of Spec        *)

\* the line, stripped, is neither empty nor a comment, and decodes
Parseable(line) ==
    /\ \E i \in 1..Len(line) : line[i] \notin Whitespace
    /\ \A i \in 1..Len(line) :
            (\A k \in 1..(i - 1) : line[k] \in Whitespace) => line[i] # "#"
    /\ json_loads(line).ok

\* the decoded values of the lines that decode, in file order
DecodedLines(lines) ==
    Kept([i \in 1..Len(lines) |-> json_loads(lines[i]).v],
         {i \in 1..Len(lines) : Parseable(lines[i])})

RulesOfSource ==
    [f \in RuleFiles |-> IF f.exists THEN DecodedLines(f.lines) ELSE << >>]

\* C14: reload_rules replaces the rule set wholesale.  Whatever the rule set
\* was before, after each reload_rules call that returns True the rule set is
\* the rules of the source just read and nothing else, no rule of an earlier
\* load surviving and nothing merged; after a load of a source that does not
\* exist it is empty.
C14_ReplacedWholesale ==
    [][reloadReturn' = PyBool(TRUE) => rules' = RulesOfSource[ruleFile']]_vars

\* a preference was saved after the construction of the agent, then a source
\* that does not exist was loaded: the rule set is empty
C14_Witness ==
    /\ prefs # NoContainer
    /\ reloadReturn = PyBool(TRUE)
    /\ ~ruleFile.exists
    /\ rules = << >>


\* C15 (as the specification states it): reload_rules returns whether the
\* rule source existed and was read: it returns True only when the file
\* exists, and for a source that does not exist it leaves the rule set empty
\* without reporting a read.
C15_ReturnsWhetherRead ==
    /\ reloadReturn = PyBool(TRUE) => ruleFile.exists
    /\ ~ruleFile.exists => rules = << >>


---------------------------------------------------------------------------
(* Agent.reload_rules and Agent.match_prompt on two threads                *)
(*                                                                         *)
(* MainDialog.process_prompt, which calls match_prompt, is written to run  *)
(* on a thread of its own.  Lists are objects: lists maps the id of a list *)
(* to its items, and self.rules, the local "rules" of reload_rules and the *)
(* iterator of match_prompt each hold an id.                               *)

\* the ids of the lists that can be alive at once: the one self.rules refers
\* to, the one reload_rules fills, and the one a match still iterates
MaxLists == 3
ListIds == 0..(MaxLists - 1)

\* the rule files of the two-thread runs
ConcFiles ==
    { [exists |-> FALSE, lines |-> << >>],
      [exists |-> TRUE, lines |-> <<json_dumps(RuleCube), json_dumps(RuleAnyCube)>>],
      [exists |-> TRUE, lines |-> <<json_dumps(RuleAnyCube), l_truncated>>],
      [exists |-> TRUE, lines |-> <<l_comment, json_dumps(RuleSphereEmpty)>>],
      [exists |-> TRUE, lines |-> <<json_dumps(RuleNoTrigger), <<"5">>>>],
      [exists |-> TRUE, lines |-> <<json_dumps(RuleSphereEmpty)>>] }

ConcPrompts ==
    { <<"a", " ", "C", "u", "b", "e">>,
      <<"m", "a", "k", "e", " ", "a", " ", "s", "p", "h", "e", "r", "e">> }

RuleLineOf == [l \in RuleLines |-> RuleLine(l)]

ReloaderIdle == [pc |-> "idle", file |-> [exists |-> FALSE, lines |-> << >>], next |-> 1, local |-> 0]
MatcherIdle ==
    [pc |-> "idle", list |-> 0, idx |-> 0, prompt |-> << >>,
     file |-> [exists |-> FALSE, lines |-> << >>], out |-> Returned(PyList(<< >>))]

\* the ids some thread or self.rules refers to
Referenced(sr, rl, mt) ==
    {sr} \cup (IF rl.pc = "reading" THEN {rl.local} ELSE {})
         \cup (IF mt.pc = "iterating" THEN {mt.list} ELSE {})

\* a list nothing refers to is freed
Collected(ls, refs) == [i \in ListIds |-> IF i \in refs THEN ls[i] ELSE << >>]

FreeId(refs) == CHOOSE i \in ListIds : i \notin refs /\ \A j \in ListIds : j < i => j \in refs

\* A faulty variant of NewList, which C16_AtomicSwap must tell from it:
\* reload_rules clears and refills the list self.rules refers to
NewList_InPlace(current, free) == current

\* "rules = []": the list reload_rules fills is a new object; current is the
\* id self.rules holds and free an id nothing refers to
NewList(current, free) == free

\* reload_rules up to "rules = []", the file being f
ReloadBegin(f) ==
    /\ reloader.pc = "idle"
    /\ \E id \in {NewList(selfRules, FreeId(Referenced(selfRules, reloader, matcher)))} :
          /\ reloader' = [pc |-> "reading", file |-> f, next |-> 1, local |-> id]
          /\ lists' = [lists EXCEPT ![id] = << >>]
    /\ UNCHANGED <<selfRules, loadedFrom, matcher>>

\* one iteration of "for line in f"
ReloadReadLine ==
    /\ reloader.pc = "reading"
    /\ reloader.file.exists
    /\ reloader.next <= Len(reloader.file.lines)
    /\ lists' = [lists EXCEPT ![reloader.local] =
                    @ \o RuleLineOf[reloader.file.lines[reloader.next]]]
    /\ reloader' = [reloader EXCEPT !.next = @ + 1]
    /\ UNCHANGED <<selfRules, loadedFrom, matcher>>

\* "self.rules = rules" and the return
ReloadAssign ==
    /\ reloader.pc = "reading"
    /\ ~reloader.file.exists \/ reloader.next > Len(reloader.file.lines)
    /\ selfRules' = reloader.local
    /\ loadedFrom' = reloader.file
    /\ reloader' = ReloaderIdle
    /\ lists' = Collected(lists, Referenced(reloader.local, ReloaderIdle, matcher))
    /\ reloadReturn' = PyBool(TRUE)
    /\ UNCHANGED matcher

\* A faulty variant of RulesAfterRaise, which C29_FailedReloadKeepsRules must
\* tell from it: the except branch publishes what was read so far
RulesAfterRaise_Partial(current, local) == local

\* the list self.rules refers to after the except branch of reload_rules,
\* which assigns nothing
RulesAfterRaise(current, local) == current

\* reading raises (open() or the iteration over the file fails with an I/O
\* error): "except Exception: log_line(...); return False".  The list filled
\* so far is dropped with the frame.
ReloadRaise ==
    /\ reloader.pc = "reading"
    /\ reloader.file.exists
    /\ \E kept \in {RulesAfterRaise(selfRules, reloader.local)} :
          /\ selfRules' = kept
          /\ lists' = Collected(lists, Referenced(kept, ReloaderIdle, matcher))
    /\ reloader' = ReloaderIdle
    /\ reloadReturn' = PyBool(FALSE)
    /\ UNCHANGED <<loadedFrom, matcher>>

\* match_prompt(p) up to the iterator "for rule in self.rules" creates; the
\* use_rules preference has its default, True
MatchBegin(p) ==
    /\ matcher.pc = "idle"
    /\ matcher' = [pc |-> "iterating", list |-> selfRules, idx |-> 0, prompt |-> p,
                   file |-> loadedFrom, out |-> Returned(PyList(<< >>))]
    /\ UNCHANGED <<lists, selfRules, loadedFrom, reloader>>

\* where the matcher is after the test t of the rule the iterator handed out
AfterRule(mt, rule, t) ==
    IF t.raised THEN [mt EXCEPT !.pc = "returned", !.out = t]
    ELSE IF t.v.b THEN [mt EXCEPT !.pc = "returned", !.out = Returned(RuleCommands(rule))]
    ELSE [mt EXCEPT !.idx = @ + 1]

\* one step of the loop: the list iterator compares its index with the
\* length the list has now, and the body tests the rule it hands out
AfterNext(mt, items) ==
    IF mt.idx >= Len(items) THEN [mt EXCEPT !.pc = "returned", !.out = Returned(PyList(<< >>))]
    ELSE AfterRule(mt, items[mt.idx + 1], RuleTest(items[mt.idx + 1], mt.prompt))

MatchNext ==
    /\ matcher.pc = "iterating"
    /\ matcher' = AfterNext(matcher, lists[matcher.list])
    /\ lists' = Collected(lists, Referenced(selfRules, reloader, matcher'))
    /\ UNCHANGED <<selfRules, loadedFrom, reloader>>

\* the caller takes what match_prompt returned or raised
MatchReturn ==
    /\ matcher.pc = "returned"
    /\ matcher' = MatcherIdle
    /\ UNCHANGED <<lists, selfRules, loadedFrom, reloader>>

\* the agent as its constructor leaves it, reload_rules having run once
ConcInit ==
    /\ ruleFile = [exists |-> FALSE, lines |-> << >>]
    /\ rules = << >>
    /\ reloadReturn = PyBool(TRUE)
    /\ prefs = NoContainer
    /\ pc = "idle"
    /\ prompt = << >>
    /\ result = NoResult
    /\ llmCalled = FALSE
    /\ llmReply = NoReply
    /\ exParts = << >>
    /\ exText = << >>
    /\ exDone = {}
    /\ exApi = Returned(<< >>)
    /\ exAgent = Returned(<< >>)
    /\ exNL = Returned(<< >>)
    /\ exResult = NoResult
    /\ \E f \in ConcFiles :
          /\ loadedFrom = f
          /\ lists = [i \in ListIds |-> IF i = 0 THEN LoadedRulesOf[f] ELSE << >>]
    /\ selfRules = 0
    /\ reloader = ReloaderIdle
    /\ matcher = MatcherIdle
    /\ ArgsUnused
    /\ DialogUnused
    /\ ExecUnused
    /\ PythonUnused

ConcNext ==
    \/ \E f \in ConcFiles : ReloadBegin(f) /\ UNCHANGED <<agentVars, exVars, argVars, dlgVars, execVars, pyVars>>
    \/ ReloadReadLine /\ UNCHANGED <<agentVars, exVars, argVars, dlgVars, execVars, pyVars>>
    \/ ReloadAssign /\ UNCHANGED <<agentRest, exVars, argVars, dlgVars, execVars, pyVars>>
    \/ ReloadRaise /\ UNCHANGED <<agentRest, exVars, argVars, dlgVars, execVars, pyVars>>
    \/ \E p \in ConcPrompts : MatchBegin(p) /\ UNCHANGED <<agentVars, exVars, argVars, dlgVars, execVars, pyVars>>
    \/ MatchNext /\ UNCHANGED <<agentVars, exVars, argVars, dlgVars, execVars, pyVars>>
    \/ MatchReturn /\ UNCHANGED <<agentVars, exVars, argVars, dlgVars, execVars, pyVars>>

ConcSpec == ConcInit /\ [][ConcNext]_vars

\* C16: reload swaps the rule set atomically.  In every interleaving of
\* reloads with a match, the list self.rules refers to holds exactly the
\* rules of the file of the last completed reload; the list a match iterates
\* holds, from its first step to its last, exactly the rules of the file
\* that was loaded when the match began (before the reload or after it,
\* never a partly filled list and never a list the reload changes); and what
\* the match returns or raises is what matching that complete rule set gives.
C16_AtomicSwap ==
    /\ lists[selfRules] = RulesOfSource[loadedFrom]
    /\ matcher.pc = "iterating" => lists[matcher.list] = RulesOfSource[matcher.file]
    /\ matcher.pc = "returned" =>
          matcher.out = MatchLoop(RulesOfSource[matcher.file], matcher.prompt)

\* a match that has tested one rule of the old list and still iterates it
\* after a reload of another file has completed and a further one has begun
\* filling its own list
C16_Witness ==
    /\ matcher.pc = "iterating"
    /\ matcher.idx = 1
    /\ matcher.list # selfRules
    /\ matcher.file # loadedFrom
    /\ lists[matcher.list] # lists[selfRules]
    /\ reloader.pc = "reading"
    /\ reloader.next = 2
    /\ lists[reloader.local] # << >>


---------------------------------------------------------------------------
(* Agent.parse_command_args and the parsers it dispatches to               *)

DigitChars == <<"0", "1", "2", "3", "4", "5", "6", "7", "8", "9">>

DigitOf(c) == (CHOOSE k \in 1..10 : DigitChars[k] = c) - 1

\* the number a run of decimal digits denotes
RECURSIVE DigitsValue(_)
DigitsValue(s) ==
    IF s = << >> THEN 0
    ELSE DigitsValue(SubSeq(s, 1, Len(s) - 1)) * 10 + DigitOf(s[Len(s)])

\* str(n), n >= 0
RECURSIVE NatLexeme(_)
NatLexeme(n) ==
    IF n < 10 THEN <<DigitChars[n + 1]>>
    ELSE NatLexeme(n \div 10) \o <<DigitChars[(n % 10) + 1]>>

\* an int, held like the ints json.loads gives: by its decimal lexeme
PyInt(n) == PyNum(IF n < 0 THEN <<"-">> \o NatLexeme(0 - n) ELSE NatLexeme(n))

\* a float that is m * 10^e exactly, m not divisible by 10 (0.0 is m = 0, e = 0)
RECURSIVE PyFloat(_, _)
PyFloat(m, e) ==
    IF m = 0 THEN [t |-> "float", m |-> 0, e |-> 0]
    ELSE IF m % 10 = 0 THEN PyFloat(m \div 10, e + 1)
    ELSE [t |-> "float", m |-> m, e |-> e]

AllDigits(s) == s # << >> /\ \A i \in 1..Len(s) : s[i] \in Digits

\* a numeric literal without its sign
Unsigned(s) == IF s # << >> /\ Head(s) \in {"+", "-"} THEN Tail(s) ELSE s

SignOf(s) == IF s # << >> /\ Head(s) = "-" THEN 0 - 1 ELSE 1

e_invalid_literal == <<"i", "n", "v", "a", "l", "i", "d", " ", "l", "i", "t", "e", "r", "a", "l", " ", "f", "o", "r", " ", "i", "n", "t", "(", ")">>
e_not_float == <<"c", "o", "u", "l", "d", " ", "n", "o", "t", " ", "c", "o", "n", "v", "e", "r", "t", " ", "s", "t", "r", "i", "n", "g", " ", "t", "o", " ", "f", "l", "o", "a", "t">>
e_no_split == <<"o", "b", "j", "e", "c", "t", " ", "h", "a", "s", " ", "n", "o", " ", "a", "t", "t", "r", "i", "b", "u", "t", "e", " ", "s", "p", "l", "i", "t">>

\* int(s), s a str: an optional sign and decimal digits between optional
\* whitespace (no digit-group underscores in the alphabet), else ValueError
IntOfStripped(t) ==
    IF AllDigits(Unsigned(t)) THEN Returned(PyInt(SignOf(t) * DigitsValue(Unsigned(t))))
    ELSE Raised(e_invalid_literal)

py_int(s) == IntOfStripped(str_strip(s))

\* the exponent part of a float literal b that starts at index p: [ok, x]
FloatExponent(b, p) ==
    IF p = Len(b) + 1 THEN [ok |-> TRUE, x |-> 0]
    ELSE IF CharAt(b, p) \in {"e", "E"} /\ AllDigits(Unsigned(From(b, p + 1)))
         THEN [ok |-> TRUE,
               x |-> SignOf(From(b, p + 1)) * DigitsValue(Unsigned(From(b, p + 1)))]
    ELSE [ok |-> FALSE, x |-> 0]

\* the index after the fraction of b, whose integer digits end before p
FractionEnd(b, p) == IF CharAt(b, p) = "." THEN DigitsEnd(b, p + 1) ELSE p

\* b is the literal without its sign, its digits and point end before p and
\* digs are its digits, frac the number of them after the point
FloatFrom(sign, b, p, digs, frac, ex) ==
    IF digs = << >> \/ ~ex.ok THEN Raised(e_not_float)
    ELSE Returned(PyFloat(sign * DigitsValue(digs), ex.x - frac))

FloatOfUnsigned(sign, b, p1, p2) ==
    FloatFrom(sign, b, p2,
              SubSeq(b, 1, p1 - 1) \o SubSeq(b, p1 + 1, p2 - 1),
              IF p2 > p1 THEN p2 - p1 - 1 ELSE 0,
              FloatExponent(b, p2))

FloatOfStripped(t) ==
    FloatOfUnsigned(SignOf(t), Unsigned(t), DigitsEnd(Unsigned(t), 1),
                    FractionEnd(Unsigned(t), DigitsEnd(Unsigned(t), 1)))

\* float(s), s a str: sign, digits with an optional point, optional exponent,
\* between optional whitespace, else ValueError.  (inf and nan hold no "."
\* and none of the characters of a colour list, so no caller passes them;
\* values beyond the range of a double are outside the inputs.)
py_float(s) == FloatOfStripped(str_strip(s))

QuoteChars == {"'", Q}

\* s.strip(chars)
str_strip_chars(s, chars) ==
    SubSeq(s, RunEnd(s, 1, chars), Len(s) + 1 - RunEnd(Reverse(s), 1, chars))


\* "float(value) if '.' in value else int(value)", and the except branch
NumberOr(value, conv) == IF conv.raised THEN PyStr(value) ELSE conv.v

\* the value args[key] gets for the stripped text value
TypedValue(value) ==
    IF value # << >> /\ Head(value) \in QuoteChars THEN PyStr(str_strip_chars(value, QuoteChars))
    ELSE IF str_lower(value) = s_true THEN PyBool(TRUE)
    ELSE IF str_lower(value) = s_false THEN PyBool(FALSE)
    ELSE NumberOr(value, IF Contains(value, <<".">>) THEN py_float(value) ELSE py_int(value))

\* A faulty variant of PairAt, which C21_GenericCoercion must tell from it:
\* the pair is split at its last "="
PairAt_LastEquals(kv, pair, eq) ==
    IF eq = 0 THEN kv
    ELSE DictSet(kv,
                 str_strip(SubSeq(pair, 1, Greatest({i \in 1..Len(pair) : pair[i] = "="}) - 1)),
                 TypedValue(str_strip(From(pair, Greatest({i \in 1..Len(pair) : pair[i] = "="}) + 1))))

\* the body of "for pair in pairs": eq is the index of the first "=" of pair
PairAt(kv, pair, eq) ==
    IF eq = 0 THEN kv
    ELSE DictSet(kv, str_strip(SubSeq(pair, 1, eq - 1)),
                 TypedValue(str_strip(From(pair, eq + 1))))

RECURSIVE ParsePairs(_, _)
ParsePairs(kv, pairs) ==
    IF pairs = << >> THEN kv
    ELSE ParsePairs(PairAt(kv, Head(pairs), Find(Head(pairs), <<"=">>, 1)), Tail(pairs))

\* the generic parser; raw is the Python value passed as args_str, and a
\* value that is no str has no split method (AttributeError)
GenericArgs(raw) ==
    IF ~IsStr(raw) THEN Raised(e_no_split)
    ELSE Returned(PyDict(ParsePairs(<< >>, str_split(raw.s, <<",">>))))

s_color == <<"c", "o", "l", "o", "r">>
s_axis == <<"a", "x", "i", "s">>
s_distance == <<"d", "i", "s", "t", "a", "n", "c", "e">>

\* args[key] = val when key is not in args
WithDefault(d, key, val) == IF HasKey(d, key) THEN d ELSE PyDict(DictSet(d.kv, key, val))

\* the defaults of parse_primitive_args
PrimitiveDefaults(act, d) ==
    IF HasKey(d, s_size) \/ HasKey(d, s_radius) THEN d
    ELSE IF act = s_AddCube THEN PyDict(DictSet(d.kv, s_size, PyInt(200)))
    ELSE IF act = s_AddSphere THEN PyDict(DictSet(d.kv, s_radius, PyInt(100)))
    ELSE d

ColorChars == Digits \cup {".", ","} \cup Whitespace

\* re.search(r'\[([\d\.,\s]+)\]', s): the leftmost "[" followed by a
\* non-empty run of ColorChars and "]"; [found, group]
ColorMatchAt(s, i) ==
    /\ s[i] = "["
    /\ RunEnd(s, i + 1, ColorChars) > i + 1
    /\ CharAt(s, RunEnd(s, i + 1, ColorChars)) = "]"

ColorGroup(s, i) ==
    IF i = 0 THEN [found |-> FALSE, group |-> << >>]
    ELSE [found |-> TRUE, group |-> SubSeq(s, i + 1, RunEnd(s, i + 1, ColorChars) - 1)]

ColorSearch(s) == ColorGroup(s, LeastOr0({i \in 1..Len(s) : ColorMatchAt(s, i)}))

\* [float(x) for x in color_str.split(",")], or the first exception
Floats(parts) ==
    IF \E i \in 1..Len(parts) : py_float(parts[i]).raised
    THEN Raised(e_not_float)
    ELSE Returned(PyList([i \in 1..Len(parts) |-> py_float(parts[i]).v]))

\* the colour after the try statement: unchanged when the comprehension raises
ColorOr(color, fl) == IF fl.raised THEN color ELSE fl.v

ParsedColor(color, m) ==
    IF ~m.found THEN color ELSE ColorOr(color, Floats(str_split(m.group, <<",">>)))

\* "if 'color' in args and isinstance(args['color'], str)"
WithParsedColor(d) ==
    IF HasKey(d, s_color) /\ IsStr(Get(d, s_color))
    THEN PyDict(DictSet(d.kv, s_color,
                        ParsedColor(Get(d, s_color), ColorSearch(Get(d, s_color).s))))
    ELSE d

MaterialDefaults(d) ==
    WithDefault(WithDefault(d, s_name, PyStr(s_NewMaterial)),
                s_color, PyList(<<PyInt(1), PyInt(1), PyInt(1)>>))

DuplicateDefaults(d) ==
    WithDefault(WithDefault(WithDefault(d, s_count, PyInt(1)), s_axis, PyStr(<<"X">>)),
                s_distance, PyInt(100))

RECURSIVE parse_command_args(_, _)

\* r is what parse_command_args("", args_str) returned or raised
PrimitiveFrom(act, r) == IF r.raised THEN r ELSE Returned(PrimitiveDefaults(act, r.v))
MaterialFrom(r) == IF r.raised THEN r ELSE Returned(MaterialDefaults(WithParsedColor(r.v)))
DuplicateFrom(r) == IF r.raised THEN r ELSE Returned(DuplicateDefaults(r.v))

parse_primitive_args(act, raw) == PrimitiveFrom(act, parse_command_args(<< >>, raw))
parse_material_args(raw) == MaterialFrom(parse_command_args(<< >>, raw))
parse_duplicate_args(raw) == DuplicateFrom(parse_command_args(<< >>, raw))

\* Agent.parse_command_args(action, args_str): the dict it returns or the
\* exception it raises
parse_command_args(act, raw) ==
    IF act \in {s_AddCube, s_AddSphere} THEN parse_primitive_args(act, raw)
    ELSE IF act = s_CreateMaterial THEN parse_material_args(raw)
    ELSE IF act = s_Duplicate THEN parse_duplicate_args(raw)
    ELSE GenericArgs(raw)

---------------------------------------------------------------------------
(* parse_command_args applied to an action and raw arguments               *)

\* the texts between the commas of an argument string
a_size50 == <<"s", "i", "z", "e", "=", "5", "0">>
a_radius == <<"r", "a", "d", "i", "u", "s", " ", "=", " ", "5">>
a_quoted == <<"n", "a", "m", "e", "=", "'", "x", "'">>
a_float == <<"s", "i", "z", "e", "=", "1", ".", "5", "0">>
a_exp == <<"d", "i", "s", "t", "a", "n", "c", "e", "=", "2", ".", "5", "e", "1">>
a_bool == <<"o", "n", "=", "T", "R", "U", "E">>
a_color3 == <<"c", "o", "l", "o", "r", "=", "[", "1", ",", " ", "0", ",", " ", "0", "]">>
a_color1 == <<"c", "o", "l", "o", "r", "=", "[", "1", "]">>
a_color_q == <<"c", "o", "l", "o", "r", "=", "\"", "[", "0", ".", "5", "]", "\"">>
a_color_sp == <<"c", "o", "l", "o", "r", "=", "[", "1", " ", "0", "]">>
a_count == <<"c", "o", "u", "n", "t", "=", "+", "0", "3">>
a_axis == <<"a", "x", "i", "s", "=", "Y">>
a_dot == <<"s", "i", "z", "e", " ", "=", ".">>
a_nested == <<"c", "=", "x", "=", "y">>
a_nokey == <<"=", "3">>
a_noeq == <<"d">>
a_neg == <<"d", "i", "s", "t", "a", "n", "c", "e", "=", "-", "7">>

ArgTexts ==
    { a_size50,
      a_radius,
      a_quoted,
      a_float,
      a_exp,
      a_bool,
      a_color3,
      a_color1,
      a_color_q,
      a_color_sp,
      a_count,
      a_axis,
      a_dot,
      a_nested,
      a_nokey,
      a_noeq,
      a_neg }

\* the most texts joined into one argument string
MaxPairs == 2

RECURSIVE JoinArgs(_)
JoinArgs(ts) ==
    IF ts = << >> THEN << >>
    ELSE IF Len(ts) = 1 THEN ts[1]
    ELSE ts[1] \o <<",">> \o JoinArgs(Tail(ts))

ArgStrings == {JoinArgs(ts) : ts \in UNION {[1..n -> ArgTexts] : n \in 0..MaxPairs}}

s_color_list == <<"[", "1", ",", " ", "0", ",", " ", "0", "]">>

\* raw arguments that are no str: mappings as json.loads gives them, and None
ArgMappings ==
    { PyDict(<< >>),
      PyDict(<<KV(s_color, PyStr(s_color_list))>>),
      PyDict(<<KV(s_size, PyNum(<<"5", "0">>))>>),
      PyDict(<<KV(s_count, PyNum(<<"3">>)), KV(s_axis, PyStr(<<"Y">>))>>),
      PyNone }

RawArgs == {PyStr(s) : s \in ArgStrings} \cup ArgMappings

ArgActions == {s_AddCube, s_AddSphere, s_CreateMaterial, s_Duplicate, s_AddLight}

NotParsed == [done |-> FALSE, out |-> Returned(PyNone)]

RunParseCommandArgs ==
    /\ ~parsed.done
    /\ parsed' = [done |-> TRUE, out |-> parse_command_args(actionArg, args_str)]
    /\ UNCHANGED <<actionArg, args_str>>

ParseArgsInit ==
    /\ ruleFile = [exists |-> FALSE, lines |-> << >>]
    /\ rules = << >>
    /\ reloadReturn = PyBool(TRUE)
    /\ prefs = NoContainer
    /\ pc = "idle"
    /\ prompt = << >>
    /\ result = NoResult
    /\ llmCalled = FALSE
    /\ llmReply = NoReply
    /\ exParts = << >>
    /\ exText = << >>
    /\ exDone = {}
    /\ exApi = Returned(<< >>)
    /\ exAgent = Returned(<< >>)
    /\ exNL = Returned(<< >>)
    /\ exResult = NoResult
    /\ ConcUnused
    /\ actionArg \in ArgActions
    /\ args_str \in RawArgs
    /\ parsed = NotParsed
    /\ DialogUnused
    /\ ExecUnused
    /\ PythonUnused

ParseArgsNext == RunParseCommandArgs /\ UNCHANGED <<agentVars, exVars, concVars, dlgVars, execVars, pyVars>>

ParseArgsSpec == ParseArgsInit /\ [][ParseArgsNext]_vars


---------------------------------------------------------------------------
(* Normalization: what is specified of parse_command_args                  *)

\* the raw arguments the specification speaks of: a string or a mapping
IsRawArgs(raw) == IsStr(raw) \/ IsDict(raw)

\* the arguments before the action's defaults: a mapping as it is, a string
\* through the generic coercion
TypedArgs(raw) == IF IsDict(raw) THEN raw ELSE GenericArgs(raw).v

\* the keys an action may add
DefaultKeys(act) ==
    IF act = s_AddCube THEN {s_size}
    ELSE IF act = s_AddSphere THEN {s_radius}
    ELSE IF act = s_CreateMaterial THEN {s_name, s_color}
    ELSE IF act = s_Duplicate THEN {s_count, s_axis, s_distance}
    ELSE {}

\* out holds the pairs of the mapping d as they are (the colour of a
\* material apart) and beyond them only defaults of the action
MappingKept(act, d, out) ==
    /\ IsDict(out)
    /\ Keys(d) \subseteq Keys(out)
    /\ Keys(out) \ Keys(d) \subseteq DefaultKeys(act)
    /\ \A key \in Keys(d) :
          (act = s_CreateMaterial /\ key = s_color) \/ Get(out, key) = Get(d, key)

\* C17: normalization never raises, for any action and any raw arguments;
\* when the raw arguments are a mapping its values are used as they are
\* typed, with only the defaults of the action added.
C17_NeverRaises ==
    parsed.done =>
        /\ ~parsed.out.raised
        /\ IsDict(args_str) => MappingKept(actionArg, args_str, parsed.out.v)

\* d[key] is val when base lacks key, and what base holds otherwise
DefaultedTo(base, d, key, val) ==
    /\ HasKey(d, key)
    /\ Get(d, key) = IF HasKey(base, key) THEN Get(base, key) ELSE val

\* the arguments of a primitive: base, and the default when base holds
\* neither size nor radius
PrimitiveOf(base, d, key, val) ==
    IF HasKey(base, s_size) \/ HasKey(base, s_radius) THEN d = base
    ELSE /\ Keys(d) = Keys(base) \cup {key}
         /\ Get(d, key) = val
         /\ \A k \in Keys(base) : Get(d, k) = Get(base, k)

\* C18: for AddCube size=200 is added exactly when neither size nor radius
\* is present, for AddSphere radius=100 under the same condition, and a size
\* or radius that is present is never overwritten; for the empty mapping
\* AddCube gives {size: 200} and AddSphere {radius: 100}.
C18_PrimitiveDefaults ==
    /\ parsed.done /\ IsRawArgs(args_str) /\ actionArg = s_AddCube =>
          /\ ~parsed.out.raised
          /\ PrimitiveOf(TypedArgs(args_str), parsed.out.v, s_size, PyInt(200))
    /\ parsed.done /\ IsRawArgs(args_str) /\ actionArg = s_AddSphere =>
          /\ ~parsed.out.raised
          /\ PrimitiveOf(TypedArgs(args_str), parsed.out.v, s_radius, PyInt(100))
    /\ parsed.done /\ args_str = PyDict(<< >>) /\ actionArg = s_AddCube =>
          parsed.out = Returned(PyDict(<<KV(s_size, PyInt(200))>>))
    /\ parsed.done /\ args_str = PyDict(<< >>) /\ actionArg = s_AddSphere =>
          parsed.out = Returned(PyDict(<<KV(s_radius, PyInt(100))>>))

\* a string that holds a bracketed list of numbers: [found, numbers]
NumberList(m) ==
    IF m.found /\ ~Floats(str_split(m.group, <<",">>)).raised
    THEN [found |-> TRUE, numbers |-> Floats(str_split(m.group, <<",">>)).v]
    ELSE [found |-> FALSE, numbers |-> PyList(<< >>)]

\* the colour of a material: the numbers of the bracketed list a string
\* colour holds, else the colour as given
ColorOf(given, d) ==
    IF IsStr(given) /\ NumberList(ColorSearch(given.s)).found
    THEN Get(d, s_color) = NumberList(ColorSearch(given.s)).numbers
    ELSE Get(d, s_color) = given

MaterialOf(base, d) ==
    /\ Keys(d) = Keys(base) \cup {s_name, s_color}
    /\ DefaultedTo(base, d, s_name, PyStr(s_NewMaterial))
    /\ IF HasKey(base, s_color) THEN ColorOf(Get(base, s_color), d)
       ELSE Get(d, s_color) = PyList(<<PyInt(1), PyInt(1), PyInt(1)>>)
    /\ \A k \in Keys(base) \ {s_color} : Get(d, k) = Get(base, k)

\* C19: a colour given as a string holding a bracketed list '[n, n, n]'
\* is replaced by the numeric sequence and left untouched when the pattern
\* does not match; name defaults to 'NewMaterial' and color to [1, 1, 1]
\* when absent; for the mapping {color: '[1, 0, 0]'} the result is
\* {color: [1.0, 0.0, 0.0], name: 'NewMaterial'}.
C19_MaterialNormalized ==
    /\ parsed.done /\ IsRawArgs(args_str) /\ actionArg = s_CreateMaterial =>
          /\ ~parsed.out.raised
          /\ MaterialOf(TypedArgs(args_str), parsed.out.v)
    /\ parsed.done /\ actionArg = s_CreateMaterial
          /\ args_str = PyDict(<<KV(s_color, PyStr(s_color_list))>>) =>
          parsed.out = Returned(PyDict(<<KV(s_color, PyList(<<PyFloat(1, 0), PyFloat(0, 0),
                                                               PyFloat(0, 0)>>)),
                                         KV(s_name, PyStr(s_NewMaterial))>>))

DuplicateOf(base, d) ==
    /\ Keys(d) = Keys(base) \cup {s_count, s_axis, s_distance}
    /\ DefaultedTo(base, d, s_count, PyInt(1))
    /\ DefaultedTo(base, d, s_axis, PyStr(<<"X">>))
    /\ DefaultedTo(base, d, s_distance, PyInt(100))
    /\ \A k \in Keys(base) : Get(d, k) = Get(base, k)

\* C20: each of count, axis and distance that is absent is set to its
\* default (1, 'X', 100) and each that is present keeps its given value; for
\* the empty mapping the result is {count: 1, axis: 'X', distance: 100}.
C20_DuplicateDefaults ==
    /\ parsed.done /\ IsRawArgs(args_str) /\ actionArg = s_Duplicate =>
          /\ ~parsed.out.raised
          /\ DuplicateOf(TypedArgs(args_str), parsed.out.v)
    /\ parsed.done /\ actionArg = s_Duplicate /\ args_str = PyDict(<< >>) =>
          parsed.out = Returned(PyDict(<<KV(s_count, PyInt(1)), KV(s_axis, PyStr(<<"X">>)),
                                         KV(s_distance, PyInt(100))>>))


---------------------------------------------------------------------------
(* The generic coercion of a call-style argument string                    *)

\* the places an argument string is cut at: before it, at its commas, after it
Cuts(s) == {0, Len(s) + 1} \cup {i \in 1..Len(s) : s[i] = ","}

\* the piece that starts after the cut a
PieceAfter(s, a) == SubSeq(s, a + 1, Least({c \in Cuts(s) : c > a}) - 1)

\* the cuts whose piece holds "=" and has the trimmed key before its first "="
CutsOfKey(s, key) ==
    {a \in Cuts(s) \ {Len(s) + 1} :
        /\ "=" \in {PieceAfter(s, a)[i] : i \in 1..Len(PieceAfter(s, a))}
        /\ str_strip(SubSeq(PieceAfter(s, a), 1, Find(PieceAfter(s, a), <<"=">>, 1) - 1)) = key}

PairKeys(s) ==
    {str_strip(SubSeq(PieceAfter(s, a), 1, Find(PieceAfter(s, a), <<"=">>, 1) - 1)) :
        a \in {c \in Cuts(s) \ {Len(s) + 1} : Find(PieceAfter(s, c), <<"=">>, 1) # 0}}

\* the trimmed text after the first "=" of a piece
ValueText(piece) == str_strip(From(piece, Find(piece, <<"=">>, 1) + 1))

\* v without the quotes at its ends
Unquoted(v) ==
    IF \A i \in 1..Len(v) : v[i] \in QuoteChars THEN << >>
    ELSE SubSeq(v, Least({i \in 1..Len(v) : v[i] \notin QuoteChars}),
                Greatest({i \in 1..Len(v) : v[i] \notin QuoteChars}))

\* the number conv, or the raw text when the conversion failed
Coerced(v, conv) == IF conv.raised THEN PyStr(v) ELSE conv.v

\* the typed value of the trimmed text v
ValueOf(v) ==
    CASE v # << >> /\ v[1] \in QuoteChars -> PyStr(Unquoted(v))
      [] v = << >> \/ v[1] \notin QuoteChars ->
            IF str_lower(v) \in {s_true, s_false} THEN PyBool(str_lower(v) = s_true)
            ELSE IF "." \in {v[i] : i \in 1..Len(v)} THEN Coerced(v, py_float(v))
            ELSE Coerced(v, py_int(v))

\* C21: the generic coercion of an argument string.  The string is split on
\* commas and each pair on its first "="; the keys of the result are the
\* trimmed keys of the pairs that hold "=" (a pair without "=" gives no
\* key), and the value of a key is that of its last pair: the text without
\* its quotes when it starts with a quote, a boolean for true or false in any
\* case, a float when it holds ".", an integer otherwise, and the raw trimmed
\* text when the conversion fails.
C21_GenericCoercion ==
    parsed.done /\ IsStr(args_str) /\ actionArg = s_AddLight =>
        /\ ~parsed.out.raised
        /\ IsDict(parsed.out.v)
        /\ Keys(parsed.out.v) = PairKeys(args_str.s)
        /\ \A key \in PairKeys(args_str.s) :
              Get(parsed.out.v, key) =
                 ValueOf(ValueText(PieceAfter(args_str.s,
                                              Greatest(CutsOfKey(args_str.s, key)))))

\* 'size=1.50,c=x=y' gives the float 1.5 and the text 'x=y'
C21_Witness ==
    /\ parsed.done
    /\ actionArg = s_AddLight
    /\ args_str = PyStr(JoinArgs(<<a_float, a_nested>>))
    /\ parsed.out = Returned(PyDict(<<KV(s_size, PyFloat(15, 0 - 1)),
                                      KV(<<"c">>, PyStr(<<"x", "=", "y">>))>>))


---------------------------------------------------------------------------
(* process_prompt across calls                                             *)

\* the envelope of a completed call, from what match_prompt gave for the
\* prompt and what the LLM client did during the call
EnvelopeAfter(m, reply) ==
    IF m.raised THEN ErrorEnvelope(m.msg)
    ELSE IF Truthy(m.v) THEN RuleEnvelope(m.v)
    ELSE IF reply.kind = "raised" THEN ErrorEnvelope(reply.msg)
    ELSE AfterResponseOf[reply.v]

\* C22: process_prompt is stateless across calls.  Every step of a call (its
\* start from any state, whatever calls came before, and the return or the
\* failure of the LLM client) leaves the rule set, the rule file and the
\* preferences as they were, and the envelope of a call that has returned is
\* a function of the rule set, the flags, the prompt and what the LLM client
\* did during this call alone.
C22_Stateless ==
    [][(pc = "calling" \/ prompt' # << >>) =>
          /\ rules' = rules
          /\ ruleFile' = ruleFile
          /\ prefs' = prefs
          /\ pc' = "idle" =>
                result' = EnvelopeAfter(match_prompt(rules, prefs, prompt'), llmReply')]_vars

\* a call answered by the LLM client although the rule set holds a rule:
\* the rule matches other prompts, and the calls before this one may have hit it
C22_Witness ==
    /\ pc = "idle"
    /\ rules = <<RuleAnyCube>>
    /\ prompt = <<"h", "e", "l", "l", "o">>
    /\ result.source = "ai"
    /\ result.commands # PyList(<< >>)
    /\ llmReply.kind = "returned"


---------------------------------------------------------------------------
(* A matching rule without commands                                        *)

\* the rules are rule objects, and the first of them whose trigger occurs in
\* the prompt has an empty "commands" list
FirstHitIsEmpty ==
    /\ \A i \in 1..Len(rules) : IsRule(rules[i])
    /\ \E i \in 1..Len(rules) :
          /\ Triggered(rules[i], prompt)
          /\ \A j \in 1..(i - 1) : ~Triggered(rules[j], prompt)
          /\ HasKey(rules[i], s_commands)
          /\ Get(rules[i], s_commands) = PyList(<< >>)

---------------------------------------------------------------------------
(* MainDialog.Command: the Run button                                      *)

s_completion == <<"c", "o", "m", "p", "l", "e", "t", "i", "o", "n">>

\* what call_claude(prompt) returns to the dialog: a provider response, a
\* mapping with a "completion", and a value that is no mapping
DialogReplies ==
    { Response(<<TextBlock(b_cube)>>),
      PyDict(<<KV(s_completion, PyStr(b_cube))>>),
      PyDict(<<KV(s_completion, PyStr(b_prose))>>),
      PyNone }

DialogPrompts == ConcPrompts \cup {<<"h", "e", "l", "l", "o">>}

DialogIdle == [pc |-> "idle", prompt |-> << >>, commands |-> PyList(<< >>), outcome |-> "none"]

\* A faulty variant of BusyOnExit, which C24_SingleRequest must tell from
\* it: the busy state is reset at the end of the try block, not in a finally
BusyOnExit_SuccessOnly(outcome) == outcome = "failed"

\* the busy state set_busy is called with when Command leaves its try
\* statement: "finally: self.set_busy(False)", whatever the outcome
BusyOnExit(outcome) == FALSE

\* Command returns: the except branch for a failure, then the finally clause
\* with set_busy, which sets the flag and enables the button when not busy
DialogLeaves(outcome, commands) ==
    /\ dlg' = [dlg EXCEPT !.pc = "idle", !.outcome = outcome, !.commands = commands]
    /\ processing' = BusyOnExit(outcome)
    /\ runEnabled' = ~BusyOnExit(outcome)

\* "if result.get('commands')": execute_commands is called for a non-empty
\* list only
DialogAfterCommands(commands) ==
    IF Truthy(commands)
    THEN /\ dlg' = [dlg EXCEPT !.pc = "executing", !.commands = commands]
         /\ UNCHANGED <<processing, runEnabled>>
    ELSE DialogLeaves("done", commands)

\* Run pressed with an empty prompt: a message box, nothing else
DialogRunEmpty ==
    /\ dlg.pc = "idle"
    /\ dlg' = [DialogIdle EXCEPT !.outcome = "rejected"]
    /\ UNCHANGED <<processing, runEnabled>>

\* Run pressed with the prompt p: set_busy(True)
DialogRun(p) ==
    /\ dlg.pc = "idle"
    /\ dlg' = [DialogIdle EXCEPT !.pc = "matching", !.prompt = p]
    /\ processing' = TRUE
    /\ runEnabled' = FALSE

\* m is what self.agent.match_prompt(prompt) gave
DialogAfterMatch(m) ==
    IF m.raised THEN DialogLeaves("failed", PyList(<< >>))
    ELSE IF Truthy(m.v) THEN DialogAfterCommands(m.v)
    ELSE /\ dlg' = [dlg EXCEPT !.pc = "calling"]
         /\ UNCHANGED <<processing, runEnabled>>

DialogMatch ==
    /\ dlg.pc = "matching"
    /\ DialogAfterMatch(match_prompt(rules, prefs, dlg.prompt))

\* the text api_result.get("completion", "") gives
CompletionOf(api_result) ==
    IF HasKey(api_result, s_completion) THEN Get(api_result, s_completion).s ELSE << >>

\* ex is what parse_commands_from_ai gave
DialogAfterParse(ex) ==
    IF ex.raised THEN DialogLeaves("failed", PyList(<< >>))
    ELSE DialogAfterCommands(PyList(ex.v))

\* call_claude returns api_result
DialogClientReturns(api_result) ==
    /\ dlg.pc = "calling"
    /\ IF ~IsDict(api_result) THEN DialogLeaves("failed", PyList(<< >>))
       ELSE DialogAfterParse(parse_commands_from_ai(CompletionOf(api_result)))

\* call_claude raises
DialogClientRaises ==
    /\ dlg.pc = "calling"
    /\ DialogLeaves("failed", PyList(<< >>))

\* execute_commands returns
DialogExecuteReturns ==
    /\ dlg.pc = "executing"
    /\ DialogLeaves("done", dlg.commands)

\* execute_commands raises what a command handler raised
DialogExecuteRaises ==
    /\ dlg.pc = "executing"
    /\ DialogLeaves("failed", dlg.commands)

DialogInit ==
    /\ \E f \in ConcFiles : ruleFile = f /\ rules = LoadedRulesOf[f]
    /\ reloadReturn = PyBool(TRUE)
    /\ prefs = NoContainer
    /\ pc = "idle"
    /\ prompt = << >>
    /\ result = NoResult
    /\ llmCalled = FALSE
    /\ llmReply = NoReply
    /\ exParts = << >>
    /\ exText = << >>
    /\ exDone = {}
    /\ exApi = Returned(<< >>)
    /\ exAgent = Returned(<< >>)
    /\ exNL = Returned(<< >>)
    /\ exResult = NoResult
    /\ ConcUnused
    /\ ArgsUnused
    /\ dlg = DialogIdle
    /\ processing = FALSE
    /\ runEnabled = TRUE
    /\ ExecUnused
    /\ PythonUnused

DialogNext ==
    \/ DialogRunEmpty /\ UNCHANGED <<agentVars, exVars, concVars, argVars, execVars, pyVars>>
    \/ \E p \in DialogPrompts :
          DialogRun(p) /\ UNCHANGED <<agentVars, exVars, concVars, argVars, execVars, pyVars>>
    \/ DialogMatch /\ UNCHANGED <<agentVars, exVars, concVars, argVars, execVars, pyVars>>
    \/ \E r \in DialogReplies :
          DialogClientReturns(r)
          /\ UNCHANGED <<agentVars, exVars, concVars, argVars, execVars, pyVars>>
    \/ DialogClientRaises /\ UNCHANGED <<agentVars, exVars, concVars, argVars, execVars, pyVars>>
    \/ DialogExecuteReturns /\ UNCHANGED <<agentVars, exVars, concVars, argVars, execVars, pyVars>>
    \/ DialogExecuteRaises /\ UNCHANGED <<agentVars, exVars, concVars, argVars, execVars, pyVars>>

DialogSpec == DialogInit /\ [][DialogNext]_vars

\* C24: the dialog processes one prompt at a time.  From the moment a Run
\* with a non-empty prompt is accepted until Command returns, the busy flag
\* is set and the Run button disabled, and whenever Command has returned
\* (after a rule hit, after the commands of a reply were executed, after a
\* reply without commands, after a failure of the rule match, the LLM
\* client, the parsing or the execution) the flag is cleared and the button
\* enabled; a Run with an empty prompt starts no processing and leaves the
\* flag as it was.
C24_SingleRequest ==
    /\ dlg.pc = "idle" => ~processing /\ runEnabled
    /\ dlg.pc # "idle" => processing /\ ~runEnabled /\ dlg.prompt # << >>
    /\ dlg.outcome = "rejected" => dlg.pc = "idle" /\ dlg.prompt = << >>

\* Command has returned after execute_commands raised
C24_Witness ==
    /\ dlg.pc = "idle"
    /\ dlg.outcome = "failed"
    /\ dlg.commands # PyList(<< >>)
    /\ dlg.prompt # << >>
    /\ ~processing
    /\ runEnabled


---------------------------------------------------------------------------
(* The two extractors side by side                                         *)

\* C25: the two extractors are alternate implementations of one operation:
\* for every completion text, extract_commands_from_text (the extractor
\* process_prompt calls) and Agent.parse_commands_from_ai return the same
\* command list.
C25_SameCommands ==
    {"api", "agent"} \subseteq exDone => exApi = exAgent


(***************************************************************************)
(* mcp_executor.py: the command table, run_tool and execute_commands.      *)
(* The host document is seen through the calls made on it: undoCalls is    *)
(* the sequence of StartUndo/EndUndo calls, scene the sequence of handler  *)
(* invocations that returned, dispatched the indices of the commands       *)
(* handed to run_tool, toolReturns what run_tool returned for each.        *)
(***************************************************************************)

s_SelectObject == <<"S", "e", "l", "e", "c", "t", "O", "b", "j", "e", "c", "t">>
s_AddSpline == <<"A", "d", "d", "S", "p", "l", "i", "n", "e">>
s_CloneAlongSpline == <<"C", "l", "o", "n", "e", "A", "l", "o", "n", "g", "S", "p", "l", "i", "n", "e">>
s_Randomize == <<"R", "a", "n", "d", "o", "m", "i", "z", "e">>
s_FrameAll == <<"F", "r", "a", "m", "e", "A", "l", "l">>
s_EnableOverlay == <<"E", "n", "a", "b", "l", "e", "O", "v", "e", "r", "l", "a", "y">>
s_AddRenderSetting == <<"A", "d", "d", "R", "e", "n", "d", "e", "r", "S", "e", "t", "t", "i", "n", "g">>
s_SetRenderResolution == <<"S", "e", "t", "R", "e", "n", "d", "e", "r", "R", "e", "s", "o", "l", "u", "t", "i", "o", "n">>
s_ToggleGI == <<"T", "o", "g", "g", "l", "e", "G", "I">>
s_ToggleViewportAA == <<"T", "o", "g", "g", "l", "e", "V", "i", "e", "w", "p", "o", "r", "t", "A", "A">>
s_SetFrameRange == <<"S", "e", "t", "F", "r", "a", "m", "e", "R", "a", "n", "g", "e">>
s_RunTool == <<"R", "u", "n", "T", "o", "o", "l">>
s_addcamera == <<"a", "d", "d", "c", "a", "m", "e", "r", "a">>
s_Teleport == <<"T", "e", "l", "e", "p", "o", "r", "t">>
s_position == <<"p", "o", "s", "i", "t", "i", "o", "n">>
s_doc == <<"d", "o", "c">>
s_self == <<"s", "e", "l", "f">>
s_a == <<"a">>
n_5 == <<"5">>
n_0 == <<"0">>

\* self.commands after __init__ and register_default_commands, in insertion
\* order (register_default_commands assigns the same names again)
Commands == <<
    s_AddCube, s_AddSphere, s_CreateMaterial, s_ApplyMaterial, s_SelectObject,
    s_Duplicate, s_GroupSelected, s_AddSpline, s_CloneAlongSpline, s_Randomize,
    s_AddCamera, s_FrameAll, s_EnableOverlay, s_AddRenderSetting,
    s_SetRenderResolution, s_ToggleGI, s_ToggleViewportAA, s_SetFrameRange,
    s_RunTool >>

\* float(v) raises: a text that is no number, or a value that is neither a
\* number, a boolean nor a text
FloatRaises(v) ==
    CASE v.t = "num"  -> FALSE
      [] v.t = "bool" -> FALSE
      [] v.t = "str"  -> py_float(v.s).raised
      [] OTHER        -> TRUE

\* "if position is not None: if isinstance(position, list) and
\* len(position) == 3: pos = c4d.Vector(float(position[0]), ...)" raises
PositionRaises(kwargs) ==
    /\ HasKey(PyDict(kwargs), s_position)
    /\ IsList(Get(PyDict(kwargs), s_position))
    /\ Len(Get(PyDict(kwargs), s_position).items) = 3
    /\ \E i \in 1..3 : FloatRaises(Get(PyDict(kwargs), s_position).items[i])

\* what run_tool gives its caller: an exception, or a return value together
\* with the handler invocations made on the document
ToolRaises(exc) == [raised |-> TRUE, exc |-> exc, v |-> PyNone, made |-> << >>]
ToolReturns(v, made) == [raised |-> FALSE, exc |-> "none", v |-> v, made |-> made]

\* the object a handler that inserts one returns
HostObject(name) == [t |-> "object", kind |-> name]

\* self.commands[name](doc, **kwargs).  add_cube and add_sphere convert the
\* position outside every try block; the RunTool entry is run_tool itself,
\* called with the document as its action, on which doc.lower() fails; the
\* other handlers return what the host gives them.
CallHandler(name, kwargs) ==
    CASE name = s_RunTool -> ToolRaises("AttributeError")
      [] name \in {s_AddCube, s_AddSphere} /\ PositionRaises(kwargs) ->
            ToolRaises(IF \E i \in 1..3 :
                             Get(PyDict(kwargs), s_position).items[i].t \in {"none", "list", "dict"}
                       THEN "TypeError" ELSE "ValueError")
      [] OTHER -> ToolReturns(HostObject(name), <<[kind |-> name, kwargs |-> kwargs]>>)

\* the place in table of the first name equal to action when both are
\* lowered, or 0
LowerLookup(table, action) ==
    LeastOr0({i \in 1..Len(table) : str_lower(table[i]) = str_lower(action)})

\* the mutant of UnknownCommand: an unknown action is an error
UnknownCommand_Raises(action) == ToolRaises("KeyError")

\* "log_line('warning', f'Unknown command: {action}'); return False"
UnknownCommand(action) == ToolReturns(PyBool(FALSE), << >>)

\* MCPExecutor.run_tool(action, **kwargs), kwargs without doc: the exact
\* name, then the first name equal without regard to case, then False.
\* "action in self.commands" raises on an unhashable action and
\* action.lower() on anything else that is no text.
run_tool(table, action, kwargs) ==
    IF ~IsStr(action)
    THEN ToolRaises(IF action.t \in {"list", "dict"} THEN "TypeError" ELSE "AttributeError")
    ELSE IF \E i \in 1..Len(table) : table[i] = action.s
    THEN CallHandler(action.s, kwargs)
    ELSE IF LowerLookup(table, action.s) # 0
    THEN CallHandler(table[LowerLookup(table, action.s)], kwargs)
    ELSE UnknownCommand(action.s)

\* cmd.get(key, default) of execute_commands: cmd must have a get method
CmdGet(cmd, key, default) == IF HasKey(cmd, key) THEN Get(cmd, key) ELSE default

\* the names run_tool(action, doc=doc, **args) already binds
BoundNames == {s_action, s_doc, s_self}

\* one pass of the loop body of execute_commands for cmd: the exception
\* raised before run_tool is entered, or what run_tool gives
\* (entered tells whether run_tool was called)
DispatchOf(table, cmd) ==
    IF ~IsDict(cmd)
    THEN [entered |-> FALSE, res |-> ToolRaises("AttributeError")]
    ELSE IF ~IsDict(CmdGet(cmd, s_args, PyDict(<< >>)))
    THEN [entered |-> FALSE, res |-> ToolRaises("TypeError")]
    ELSE IF Keys(CmdGet(cmd, s_args, PyDict(<< >>))) \cap BoundNames # {}
    THEN [entered |-> FALSE, res |-> ToolRaises("TypeError")]
    ELSE [entered |-> TRUE,
          res |-> run_tool(table, CmdGet(cmd, s_action, PyStr(<< >>)),
                           CmdGet(cmd, s_args, PyDict(<< >>)).kv)]

(***************************************************************************)
(* The command lists handed to execute_commands.                           *)
(***************************************************************************)

MaxCommands == 3

c_cube == Cmd(s_AddCube, <<KV(s_size, PyNum(n_200)), KV(s_name, PyStr(s_Cube))>>)
c_material == Cmd(s_CreateMaterial, <<KV(s_name, PyStr(s_NewMaterial))>>)
c_light == Cmd(s_AddLight, <<KV(s_type, PyStr(s_point))>>)
c_lowercase == Cmd(s_addcamera, << >>)
c_unknown == Cmd(s_Teleport, << >>)
c_no_action == PyDict(<<KV(s_args, PyDict(<< >>))>>)
c_bad_position ==
    Cmd(s_AddSphere, <<KV(s_position, PyList(<<PyStr(s_a), PyNum(n_0), PyNum(n_0)>>))>>)
c_run_tool == Cmd(s_RunTool, << >>)
c_number == PyNum(n_5)
c_args_action == Cmd(s_Teleport, <<KV(s_action, PyStr(s_AddCube))>>)
c_action_number == PyDict(<<KV(s_action, PyNum(n_5))>>)

CommandPool == {c_cube, c_material, c_light, c_lowercase, c_unknown, c_no_action,
                c_bad_position, c_run_tool, c_number, c_args_action, c_action_number}

SeqsUpTo(S, n) == UNION {[1..k -> S] : k \in 0..n}

CommandLists == {PyNone} \cup {PyList(l) : l \in SeqsUpTo(CommandPool, MaxCommands)}

ExecIdle == [pc |-> "start", next |-> 1, raised |-> FALSE, exc |-> "none"]

\* "if not cmd_list: log_line(...); return", else doc.StartUndo()
ExecuteBegin ==
    /\ exe.pc = "start"
    /\ IF ~Truthy(cmd_list)
       THEN /\ exe' = [exe EXCEPT !.pc = "returned"]
            /\ UNCHANGED undoCalls
       ELSE /\ exe' = [exe EXCEPT !.pc = "loop"]
            /\ undoCalls' = Append(undoCalls, "StartUndo")
    /\ UNCHANGED <<cmd_list, dispatched, toolReturns, scene>>

\* the mutant of AfterDispatch: the except branch does not close the block
AfterDispatch_NoEndUndo(d) ==
    /\ dispatched' = IF d.entered THEN Append(dispatched, exe.next) ELSE dispatched
    /\ IF d.res.raised
       THEN /\ exe' = [exe EXCEPT !.pc = "raised", !.raised = TRUE, !.exc = d.res.exc]
            /\ UNCHANGED <<undoCalls, toolReturns, scene>>
       ELSE /\ toolReturns' = Append(toolReturns, d.res.v)
            /\ scene' = scene \o d.res.made
            /\ exe' = [exe EXCEPT !.next = exe.next + 1]
            /\ UNCHANGED undoCalls

\* the state after the loop body gave d for the command at exe.next: an
\* exception goes to the except branch, which calls doc.EndUndo() and
\* raises it again
AfterDispatch(d) ==
    /\ dispatched' = IF d.entered THEN Append(dispatched, exe.next) ELSE dispatched
    /\ IF d.res.raised
       THEN /\ undoCalls' = Append(undoCalls, "EndUndo")
            /\ exe' = [exe EXCEPT !.pc = "raised", !.raised = TRUE, !.exc = d.res.exc]
            /\ UNCHANGED <<toolReturns, scene>>
       ELSE /\ toolReturns' = Append(toolReturns, d.res.v)
            /\ scene' = scene \o d.res.made
            /\ exe' = [exe EXCEPT !.next = exe.next + 1]
            /\ UNCHANGED undoCalls

\* one pass of "for cmd in cmd_list"
ExecuteCommand ==
    /\ exe.pc = "loop"
    /\ exe.next <= Len(cmd_list.items)
    /\ AfterDispatch(DispatchOf(Commands, cmd_list.items[exe.next]))
    /\ UNCHANGED cmd_list

\* the loop is over: doc.EndUndo(); c4d.EventAdd()
ExecuteEnd ==
    /\ exe.pc = "loop"
    /\ exe.next > Len(cmd_list.items)
    /\ undoCalls' = Append(undoCalls, "EndUndo")
    /\ exe' = [exe EXCEPT !.pc = "returned"]
    /\ UNCHANGED <<cmd_list, dispatched, toolReturns, scene>>

ExecInit ==
    /\ cmd_list \in CommandLists
    /\ exe = ExecIdle
    /\ undoCalls = << >>
    /\ dispatched = << >>
    /\ toolReturns = << >>
    /\ scene = << >>
    /\ ruleFile = [exists |-> FALSE, lines |-> << >>]
    /\ rules = << >>
    /\ reloadReturn = PyBool(TRUE)
    /\ prefs = NoContainer
    /\ pc = "idle"
    /\ prompt = << >>
    /\ result = NoResult
    /\ llmCalled = FALSE
    /\ llmReply = NoReply
    /\ exParts = << >>
    /\ exText = << >>
    /\ exDone = {}
    /\ exApi = Returned(<< >>)
    /\ exAgent = Returned(<< >>)
    /\ exNL = Returned(<< >>)
    /\ exResult = NoResult
    /\ ConcUnused
    /\ ArgsUnused
    /\ DialogUnused
    /\ PythonUnused

ExecNext ==
    \/ ExecuteBegin /\ UNCHANGED <<agentVars, exVars, concVars, argVars, dlgVars, pyVars>>
    \/ ExecuteCommand /\ UNCHANGED <<agentVars, exVars, concVars, argVars, dlgVars, pyVars>>
    \/ ExecuteEnd /\ UNCHANGED <<agentVars, exVars, concVars, argVars, dlgVars, pyVars>>

ExecSpec == ExecInit /\ [][ExecNext]_vars


(***************************************************************************)
(* C26: execute_commands brackets execution in one undo block.  For a      *)
(* non-empty command list StartUndo is called exactly once, before the     *)
(* first command is dispatched, and EndUndo exactly once, after the last   *)
(* dispatched command, also when a command raises: the exception is then   *)
(* raised again after EndUndo and the commands after it are never          *)
(* dispatched.  For an empty list neither is called and no command runs.   *)
(***************************************************************************)
C26_InBlock ==
    /\ exe.pc = "start" => undoCalls = << >> /\ dispatched = << >> /\ scene = << >>
    /\ exe.pc = "loop" => undoCalls = <<"StartUndo">>
    /\ exe.pc \in {"returned", "raised"} =>
          IF Truthy(cmd_list)
          THEN undoCalls = <<"StartUndo", "EndUndo">>
          ELSE undoCalls = << >> /\ dispatched = << >> /\ scene = << >>
    /\ exe.pc = "returned" /\ Truthy(cmd_list) =>
          dispatched = [i \in 1..Len(cmd_list.items) |-> i]
    /\ exe.pc = "raised" =>
          /\ exe.raised
          /\ exe.next <= Len(cmd_list.items)
          /\ \A i \in 1..Len(dispatched) : dispatched[i] <= exe.next

C26_DispatchInsideBlock ==
    /\ dispatched' # dispatched =>
          /\ undoCalls = <<"StartUndo">>
          /\ undoCalls' \in {<<"StartUndo">>, <<"StartUndo", "EndUndo">>}
    /\ scene' # scene => undoCalls = <<"StartUndo">> /\ undoCalls' = undoCalls
    /\ exe.pc \in {"returned", "raised"} => exe' = exe /\ undoCalls' = undoCalls

C26_UndoBlock == [](C26_InBlock) /\ [][C26_DispatchInsideBlock]_vars

\* a handler raised on the second of three commands: the block is closed,
\* the exception is out and the third command was never dispatched
C26_Witness ==
    /\ exe.pc = "raised"
    /\ dispatched = <<1, 2>>
    /\ Len(cmd_list.items) = 3
    /\ undoCalls = <<"StartUndo", "EndUndo">>
    /\ Len(scene) = 1


\* cmd is a command that run_tool is entered for (a mapping whose args are a
\* mapping without a name the call already binds) and whose action is a
\* text that no name of the table equals, with or without regard to case
Unregistered(cmd) ==
    /\ IsDict(cmd)
    /\ HasKey(cmd, s_action) => IsStr(Get(cmd, s_action))
    /\ HasKey(cmd, s_args) =>
          /\ IsDict(Get(cmd, s_args))
          /\ Keys(Get(cmd, s_args)) \cap {s_action, s_doc, s_self} = {}
    /\ \A i \in 1..Len(Commands) :
          str_lower(Commands[i]) #
          str_lower(IF HasKey(cmd, s_action) THEN Get(cmd, s_action).s ELSE << >>)

(***************************************************************************)
(* C27: execute_commands dispatches the commands one at a time in list     *)
(* order, and a command whose action is not registered, neither exactly    *)
(* nor without regard to case, makes run_tool return False without         *)
(* raising, changes nothing in the scene and does not keep the commands    *)
(* after it from being dispatched.                                         *)
(***************************************************************************)
C27_InOrder ==
    /\ dispatched = [i \in 1..Len(dispatched) |-> i]
    /\ exe.pc = "loop" => Len(dispatched) = exe.next - 1 /\ Len(toolReturns) = exe.next - 1
    /\ exe.pc = "raised" => ~Unregistered(cmd_list.items[exe.next])

C27_UnknownStep ==
    (/\ exe.pc = "loop"
     /\ exe.next <= Len(cmd_list.items)
     /\ Unregistered(cmd_list.items[exe.next]))
    => /\ dispatched' = Append(dispatched, exe.next)
       /\ toolReturns' = Append(toolReturns, PyBool(FALSE))
       /\ scene' = scene
       /\ undoCalls' = undoCalls
       /\ exe' = [exe EXCEPT !.next = exe.next + 1]

SystemPromptCommands ==
    {s_AddCube, s_AddSphere, s_CreateMaterial, s_ApplyMaterial, s_SelectObject,
     s_AddLight, s_AddCamera, s_GroupSelected, s_AddSpline, s_SetRenderResolution}

\* the actions of the commands the natural-language fallback of
\* parse_commands_from_ai synthesizes
FallbackActions == {Get(Actions[i].cmd, s_action).s : i \in 1..Len(Actions)}

\* the command at place i of the list names an action of the core's own
\* vocabulary
FromVocabulary(i) ==
    /\ IsDict(cmd_list.items[i])
    /\ HasKey(cmd_list.items[i], s_action)
    /\ IsStr(Get(cmd_list.items[i], s_action))
    /\ Get(cmd_list.items[i], s_action).s \in SystemPromptCommands \cup FallbackActions

(***************************************************************************)
(* C28: every action name of the core's own vocabulary, the commands       *)
(* listed in the system prompt and the actions the natural-language        *)
(* fallback synthesizes, is registered in the executor's command table:    *)
(* run_tool never answers False (unknown command) for one of them.         *)
(***************************************************************************)
C28_VocabularyRegistered ==
    \A i \in 1..Len(toolReturns) : FromVocabulary(i) => toolReturns[i] # PyBool(FALSE)


(***************************************************************************)
(* C29: a reload that fails with an exception returns False and leaves     *)
(* the previously loaded rule set exactly as it was; the rule set is       *)
(* assigned only after the whole source has been read.                     *)
(***************************************************************************)
C29_FailedStep ==
    /\ (reloader.pc = "reading" /\ reloader'.pc = "idle" /\ reloadReturn' = PyBool(FALSE)) =>
          /\ selfRules' = selfRules
          /\ lists'[selfRules'] = lists[selfRules]
          /\ loadedFrom' = loadedFrom
    /\ (selfRules' # selfRules \/ lists'[selfRules'] # lists[selfRules]) =>
          /\ reloader.pc = "reading"
          /\ reloader.file.exists => reloader.next > Len(reloader.file.lines)
          /\ lists'[selfRules'] = RulesOfSource[reloader.file]
          /\ reloadReturn' = PyBool(TRUE)

C29_FailedReloadKeepsRules ==
    [](reloadReturn = PyBool(FALSE) => lists[selfRules] = RulesOfSource[loadedFrom])
    /\ [][C29_FailedStep]_vars

\* the last reload failed and the rules of the file loaded before it are
\* still the agent's rule set
C29_Witness ==
    /\ reloadReturn = PyBool(FALSE)
    /\ reloader.pc = "idle"
    /\ loadedFrom.exists
    /\ lists[selfRules] # << >>
    /\ lists[selfRules] = RulesOfSource[loadedFrom]


(***************************************************************************)
(* python_executor.py: run_python_snippet and is_safe_code.  hostScripts   *)
(* is the sequence of scripts handed to the host by c4d.CallCommand.       *)
(***************************************************************************)
s_enable_python == <<"e", "n", "a", "b", "l", "e", "_", "p", "y", "t", "h", "o", "n">>
t_import == <<"i", "m", "p", "o", "r", "t">>
t_os == <<"o", "s">>
t_subprocess == <<"s", "u", "b", "p", "r", "o", "c", "e", "s", "s">>
t_sys == <<"s", "y", "s">>
t_shutil == <<"s", "h", "u", "t", "i", "l">>
t_eval == <<"e", "v", "a", "l">>
t_exec == <<"e", "x", "e", "c">>
t_open == <<"o", "p", "e", "n">>
t_dunder_import == <<"_", "_", "i", "m", "p", "o", "r", "t", "_", "_", "(">>
t_system == <<".", "s", "y", "s", "t", "e", "m">>
t_popen == <<".", "p", "o", "p", "e", "n">>
t_unlink == <<".", "u", "n", "l", "i", "n", "k">>
t_header == <<NL, "i", "m", "p", "o", "r", "t", " ", "c", "4", "d", NL, "d", "o", "c", " ", "=", " ", "c", "4", "d", ".", "d", "o", "c", "u", "m", "e", "n", "t", "s", ".", "G", "e", "t", "A", "c", "t", "i", "v", "e", "D", "o", "c", "u", "m", "e", "n", "t", "(", ")", NL, "d", "o", "c", ".", "S", "t", "a", "r", "t", "U", "n", "d", "o", "(", ")", NL, "t", "r", "y", ":", NL>>
t_footer == <<NL, " ", " ", " ", " ", "c", "4", "d", ".", "E", "v", "e", "n", "t", "A", "d", "d", "(", ")", NL, "e", "x", "c", "e", "p", "t", " ", "E", "x", "c", "e", "p", "t", "i", "o", "n", " ", "a", "s", " ", "e", ":", NL, " ", " ", " ", " ", "p", "r", "i", "n", "t", "(", Q, "E", "r", "r", "o", "r", ":", Q, ",", " ", "s", "t", "r", "(", "e", ")", ")", NL, "d", "o", "c", ".", "E", "n", "d", "U", "n", "d", "o", "(", ")", NL>>
h_import == <<"i", "m", "p", "o", "r", "t">>
h_from == <<"f", "r", "o", "m", " ", "x", " ", "i", "m", "p", "o", "r", "t">>
h_eval == <<"e", "v", "a", "l">>
h_exec == <<"y", " ", "=", " ", "e", "x", "e", "c">>
h_open == <<"o", "p", "e", "n">>
h_reopen == <<"r", "e", "o", "p", "e", "n">>
h_system == <<"o", "s", ".", "s", "y", "s", "t", "e", "m">>
h_popen == <<"p", ".", "p", "o", "p", "e", "n">>
h_unlink == <<"f", ".", "u", "n", "l", "i", "n", "k">>
h_dunder == <<"_", "_", "i", "m", "p", "o", "r", "t", "_", "_", "(">>
h_print == <<"p", "r", "i", "n", "t">>
h_Import == <<"I", "m", "p", "o", "r", "t">>
g_none == << >>
g_space == <<" ">>
g_newline == <<NL, " ">>
g_tab == <<"	">>
tl_paren == <<"(", "'", "x", "'", ")">>
tl_os == <<"o", "s">>
tl_sys == <<"s", "y", "s", ".", "p", "a", "t", "h">>
tl_subprocess == <<"s", "u", "b", "p", "r", "o", "c", "e", "s", "s">>
tl_shutil == <<"s", "h", "u", "t", "i", "l">>
tl_json == <<"j", "s", "o", "n">>
tl_c4d == <<"c", "4", "d", NL, "p", "r", "i", "n", "t", "(", "1", ")">>
tl_qos == <<"'", "o", "s", "'", ")">>
tl_dqos == <<Q, "o", "s", Q, ")">>
tl_qsys == <<"'", "s", "y", "s", "'", ")">>
tl_nothing == << >>
SnippetHeads == {h_import, h_from, h_eval, h_exec, h_open, h_reopen, h_system, h_popen, h_unlink, h_dunder, h_print, h_Import}
SnippetGaps == {g_none, g_space, g_newline, g_tab}
SnippetTails == {tl_paren, tl_os, tl_sys, tl_subprocess, tl_shutil, tl_json, tl_c4d, tl_qos, tl_dqos, tl_qsys, tl_nothing}

\* load_pref("enable_python", False) as a condition
PythonEnabled_DefaultOn(bc) == Truthy(load_pref(bc, s_enable_python, PyBool(TRUE)))

PythonEnabled(bc) == Truthy(load_pref(bc, s_enable_python, PyBool(FALSE)))

\* the end of the whitespace run at j (j itself when there is none): where
\* what follows \s* or \s+ must begin, since nothing that follows them in
\* the patterns begins with whitespace
AfterWs(s, j) == RunEnd(s, j, Whitespace)

\* import\s+(os|subprocess|sys|shutil) matches at i
ImportAt(s, i) ==
    /\ StartsWithAt(s, i, t_import)
    /\ AfterWs(s, i + Len(t_import)) > i + Len(t_import)
    /\ \E m \in {t_os, t_subprocess, t_sys, t_shutil} :
          StartsWithAt(s, AfterWs(s, i + Len(t_import)), m)

\* __import__\(\s*['\"]os['\"] matches at i
DunderImportAt(s, i) ==
    /\ StartsWithAt(s, i, t_dunder_import)
    /\ CharAt(s, AfterWs(s, i + Len(t_dunder_import))) \in QuoteChars
    /\ StartsWithAt(s, AfterWs(s, i + Len(t_dunder_import)) + 1, t_os)
    /\ CharAt(s, AfterWs(s, i + Len(t_dunder_import)) + 1 + Len(t_os)) \in QuoteChars

\* name\s*\( matches at i
CallAt(s, i, name) ==
    /\ StartsWithAt(s, i, name)
    /\ CharAt(s, AfterWs(s, i + Len(name))) = "("

\* the names of the patterns of the form name\s*\(, in the order of the list
DangerousCalls == <<t_eval, t_exec, t_open, t_system, t_popen, t_unlink>>

\* re.search(pattern, code) for some pattern of dangerous_patterns
DangerousAt(s, i) ==
    \/ ImportAt(s, i)
    \/ DunderImportAt(s, i)
    \/ \E n \in 1..Len(DangerousCalls) : CallAt(s, i, DangerousCalls[n])

is_safe_code(s) == ~\E i \in 1..Len(s) : DangerousAt(s, i)

\* code.replace(old, new), old one character
RECURSIVE Replace1(_, _, _)
Replace1(s, old, new) ==
    IF s = << >> THEN << >>
    ELSE (IF Head(s) = old THEN new ELSE <<Head(s)>>) \o Replace1(Tail(s), old, new)

\* indent_code(code, spaces)
indent_code(s, spaces) ==
    [i \in 1..spaces |-> " "] \o Replace1(s, NL, <<NL>> \o [i \in 1..spaces |-> " "])

\* the script handed to the host: the code in its undo block
Wrapped(s) == t_header \o indent_code(s, 4) \o t_footer

\* what c4d.CallCommand gives back is the host's
HostReturns == {PyNone, PyBool(TRUE), PyBool(FALSE)}

Snippets == {h \o g \o t : h \in SnippetHeads, g \in SnippetGaps, t \in SnippetTails}

SnippetPrefs ==
    {NoContainer,
     save_pref(NoContainer, s_use_rules, PyBool(TRUE)),
     save_pref(NoContainer, s_enable_python, PyBool(FALSE)),
     save_pref(NoContainer, s_enable_python, PyBool(TRUE)),
     save_pref(save_pref(NoContainer, s_use_rules, PyBool(FALSE)), s_enable_python, PyBool(TRUE))}

Pending == [t |-> "pending"]

\* run_python_snippet(code)
RunPythonSnippet ==
    /\ pyReturn = Pending
    /\ IF ~PythonEnabled(prefs)
       THEN pyReturn' = PyBool(FALSE) /\ UNCHANGED hostScripts
       ELSE IF ~is_safe_code(code)
       THEN pyReturn' = PyBool(FALSE) /\ UNCHANGED hostScripts
       ELSE /\ hostScripts' = Append(hostScripts, Wrapped(code))
            /\ pyReturn' \in HostReturns
    /\ UNCHANGED code

SnippetInit ==
    /\ code \in Snippets
    /\ hostScripts = << >>
    /\ pyReturn = Pending
    /\ prefs \in SnippetPrefs
    /\ ruleFile = [exists |-> FALSE, lines |-> << >>]
    /\ rules = << >>
    /\ reloadReturn = PyBool(TRUE)
    /\ pc = "idle"
    /\ prompt = << >>
    /\ result = NoResult
    /\ llmCalled = FALSE
    /\ llmReply = NoReply
    /\ exParts = << >>
    /\ exText = << >>
    /\ exDone = {}
    /\ exApi = Returned(<< >>)
    /\ exAgent = Returned(<< >>)
    /\ exNL = Returned(<< >>)
    /\ exResult = NoResult
    /\ ConcUnused
    /\ ArgsUnused
    /\ DialogUnused
    /\ ExecUnused

SnippetNext == RunPythonSnippet /\ UNCHANGED <<agentVars, exVars, concVars, argVars, dlgVars, execVars>>

SnippetSpec == SnippetInit /\ [][SnippetNext]_vars

\* the text s holds, somewhere, word, then whitespace (at least min
\* characters of it), then one of nexts
HoldsAfterGap(s, word, min, nexts) ==
    \E i \in 1..Len(s) : \E k \in i..(Len(s) + 1) :
        /\ StartsWithAt(s, i, word)
        /\ k >= i + Len(word) + min
        /\ \A j \in (i + Len(word))..(k - 1) : s[j] \in Whitespace
        /\ \E nx \in nexts : StartsWithAt(s, k, nx)

\* s holds one of the listed dangerous patterns
ListedPattern(s) ==
    \/ HoldsAfterGap(s, t_import, 1, {t_os, t_subprocess, t_sys, t_shutil})
    \/ HoldsAfterGap(s, t_dunder_import, 0,
                     {<<a>> \o t_os \o <<b>> : a \in QuoteChars, b \in QuoteChars})
    \/ \E n \in {t_eval, t_exec, t_open, t_system, t_popen, t_unlink} :
          HoldsAfterGap(s, n, 0, {<<"(">>})

\* the 'enable_python' preference as stored: true only when the container
\* exists and holds a true value under the key's id
StoredTrue(bc) ==
    /\ bc.exists
    /\ \E e \in bc.data : e.id = generate_id(s_enable_python) /\ e.v = PyBool(TRUE)

(***************************************************************************)
(* C30: run_python_snippet never hands code to the host's script executor  *)
(* unless the 'enable_python' preference is true and the code passes       *)
(* is_safe_code: when the preference is false (its default) or the code    *)
(* holds a listed dangerous pattern, it returns False and nothing is       *)
(* executed.                                                               *)
(***************************************************************************)
C30_Gated ==
    /\ hostScripts # << >> =>
          /\ StoredTrue(prefs)
          /\ ~ListedPattern(code)
          /\ hostScripts = <<Wrapped(code)>>
    /\ (pyReturn # Pending /\ (~StoredTrue(prefs) \/ ListedPattern(code))) =>
          /\ pyReturn = PyBool(FALSE)
          /\ hostScripts = << >>

\* the preference is on, and a snippet that calls exec with a line break
\* before the parenthesis was refused
C30_Witness ==
    /\ pyReturn = PyBool(FALSE)
    /\ StoredTrue(prefs)
    /\ code = h_exec \o g_newline \o tl_paren
    /\ hostScripts = << >>

\* the preference is on and a harmless snippet went to the host in its
\* undo block
C30_WitnessRun ==
    /\ StoredTrue(prefs)
    /\ code = h_reopen \o g_space \o tl_c4d
    /\ hostScripts = <<Wrapped(code)>>

====
